---- MODULE Spec2Model ----
(***************************************************************************)
(* Offline send-retry queue of FactuNabo: the offline_queue table, the     *)
(* OfflineQueueService operations over it and the drain loop of            *)
(* MainController.process_offline_queue.                                   *)
(***************************************************************************)
EXTENDS Integers, Sequences, FiniteSets, TLC

\* ------------------------------------------------------------------ bounds
\* Largest number of rows ever inserted into offline_queue.
MaxItems == 2
\* Largest value of the wall clock, in seconds (timestamps are stored with
\* one-second resolution).
MaxClock == 1
\* Cap on the number of direct mark_as_sent calls on one item.
MaxSentCalls == 1
\* Number of concurrent callers of mark_as_failed.
MaxThreads == 2
\* Largest number of rows ever inserted into envios.
MaxRows == 2
\* Largest number of rows of each sheet of a batch.
MaxSheetRows == 2

\* ------------------------------------------------------- program constants
PENDIENTE == "PENDIENTE"
ENVIADO == "ENVIADO"
FALLIDO == "FALLIDO"
\* SQL NULL / Python None in an integer-valued column or field.
NULL == -1
\* Python None in a string-valued field.
None == "None"
\* get_pending_items(limit=50)
DefaultLimit == 50
\* mark_as_failed(..., max_retries=3)
DefaultMaxRetries == 3

\* The max_retries arguments direct callers of mark_as_failed pass.
RetriesArgs == 1..DefaultMaxRetries
\* The limit arguments direct callers of get_pending_items pass.
Limits == 0..MaxItems
\* The files update_pdf_paths_in_history finds in pdf_dest_dir.
Paths == {"a.pdf", "b.pdf"}
\* The error_msg arguments callers of mark_as_failed pass.
Errors == {"timeout", "HTTP 500"}

Ids == 1..MaxItems
\* A backlog the application was offline for: more invoices than one drain
\* reads, DefaultLimit of them in front of MaxItems newer ones.
Backlog == DefaultLimit + MaxItems
\* The second the i-th invoice of the backlog was queued at, one invoice a
\* second up to the second before the clock's origin.
Queued(i) == i - Backlog - 2
Threads == 1..MaxThreads
Min(a, b) == IF a <= b THEN a ELSE b

VARIABLES
    queue,          \* the offline_queue table: id -> row
    seq,            \* sqlite_sequence of offline_queue (AUTOINCREMENT)
    clock,          \* datetime.now(), truncated to seconds
    max_retries,    \* the max_retries argument direct callers pass
    pc,             \* position of process_offline_queue
    pending_items,  \* its local: the items read at its start
    idx,            \* its local: 1-based position of the for loop
    processed,      \* its local counters
    success,
    failed,
    drain_row,      \* the row read by the mark_as_failed the drain is running
    drain_now,      \* the time the mark_as_* the drain is running works with
    ret,            \* value returned by the last completed operation
    calls,          \* per row: the mark_as_* calls the service's log records
    removed,        \* per id: the estado a deleted row had, "no" otherwise
    threads,        \* per caller: the call it is inside and its locals
    last_error,     \* per id: the error_msg of the last warning line about it
    envios,         \* the envios table (committed state): id -> row
    hseq,           \* sqlite_sequence of envios (AUTOINCREMENT)
    conns,          \* connections opened by get_connection and not closed
    txn,            \* the database function under way and its connection
    df_factura,     \* the invoices sheet handed to validate_invoice_data
    df_conceptos,   \* the line items sheet handed to it
    arg,            \* the argument of a function of InvoiceProcessingService
    backfill,       \* the locals of update_pdf_paths_in_history under way
    cache,          \* StatsService._cache
    last_updated,   \* StatsService._last_updated
    dashboard       \* the locals of get_dashboard_stats under way

vars == <<queue, seq, clock, max_retries, pc, pending_items, idx, processed,
          success, failed, drain_row, drain_now, ret, calls, removed, threads,
          last_error,
          envios, hseq, conns, txn, df_factura, df_conceptos, arg, backfill,
          cache, last_updated, dashboard>>
drainVars == <<pc, pending_items, idx, processed, success, failed,
               drain_row, drain_now>>
storeVars == <<envios, hseq, conns, txn>>
\* The arguments of the functions that work on a batch.
batchVars == <<df_factura, df_conceptos, arg, backfill>>
statsVars == <<cache, last_updated, dashboard>>
\* What the operations of the queue with no error text on record leave alone.
restVars == <<last_error, storeVars, batchVars, statsVars>>
\* What the operations on the history leave alone.
tableVars == <<queue, seq, max_retries, drainVars, calls, removed, last_error>>
queueVars == <<tableVars, threads, batchVars, statsVars>>

\* ------------------------------------------------------------- the table
\* The columns of a row the operations read or write; the payload columns
\* (xml_content, num_factura, empresa, ...) are written once and never read
\* by any transition.
NewRow(now) ==
    [estado |-> PENDIENTE, intentos |-> 0, fecha_creacion |-> now,
     ultimo_intento |-> NULL]

NoCalls == [failed |-> 0, sent |-> 0]
NoReturn == [op |-> "none", val |-> NULL]
\* A caller that is inside no call.
IdleThread == [pc |-> "idle"]
\* A DataFrame with no column and no row.
NoFrame == [columns |-> {}, rows |-> << >>]
\* No database function is under way.
NoTxn == [pc |-> "idle"]
\* StatsService._cache is None.
NoStats == [stats |-> "None"]
\* No update_pdf_paths_in_history and no get_dashboard_stats is under way.
NoBackfill == [pc |-> "idle"]
NoDashboard == [pc |-> "idle"]
\* An exception has left the operation.
Raised == [op |-> "raise", val |-> NULL]

\* A key that is INTEGER PRIMARY KEY without AUTOINCREMENT: one more than
\* the largest id now in the table.
next_rowid_reusing(q, sq) ==
    IF DOMAIN q = {} THEN 1
    ELSE (CHOOSE i \in DOMAIN q : \A j \in DOMAIN q : j <= i) + 1

\* id INTEGER PRIMARY KEY AUTOINCREMENT: one more than the largest id the
\* table ever held, which sqlite_sequence keeps.
next_rowid(q, sq) == sq + 1

\* INSERT INTO offline_queue ... VALUES (..., 'PENDIENTE')
add_to_queue(q, id, now) ==
    [i \in DOMAIN q \cup {id} |-> IF i = id THEN NewRow(now) ELSE q[i]]

\* mark_as_sent that also counts the attempt.
mark_as_sent_counting(q, id, now) ==
    IF id \in DOMAIN q
    THEN [q EXCEPT ![id].estado = ENVIADO, ![id].ultimo_intento = now,
                   ![id].intentos = @ + 1]
    ELSE q

\* UPDATE offline_queue SET estado = 'ENVIADO', ultimo_intento = ? WHERE id = ?
mark_as_sent(q, id, now) ==
    IF id \in DOMAIN q
    THEN [q EXCEPT ![id].estado = ENVIADO, ![id].ultimo_intento = now]
    ELSE q

\* SELECT intentos FROM offline_queue WHERE id = ?   (None when no row)
select_intentos(q, id) ==
    IF id \in DOMAIN q THEN q[id].intentos ELSE NULL

\* The comparison written with > in place of >=.
failed_estado_strict(intentos, m) ==
    IF intentos > m THEN FALLIDO ELSE PENDIENTE

\* estado = "FALLIDO" if intentos >= max_retries else "PENDIENTE"
failed_estado(intentos, m) ==
    IF intentos >= m THEN FALLIDO ELSE PENDIENTE

\* UPDATE offline_queue SET estado = ?, intentos = ?, ultimo_intento = ?
\* WHERE id = ?, with the values computed from the row read before.
update_failed(q, id, row, m, now) ==
    IF row = NULL \/ id \notin DOMAIN q
    THEN q
    ELSE [q EXCEPT ![id].estado = failed_estado(row + 1, m),
                   ![id].intentos = row + 1,
                   ![id].ultimo_intento = now]

\* SELECT COUNT(*) FROM offline_queue WHERE estado = 'ENVIADO'
count_sent(q) == Cardinality({i \in DOMAIN q : q[i].estado = ENVIADO})

\* DELETE FROM offline_queue with no WHERE.
delete_all(q) == [i \in {} |-> q[i]]

\* DELETE ... WHERE estado <> 'PENDIENTE': the failed rows go too.
delete_not_pending(q) ==
    [i \in {j \in DOMAIN q : q[j].estado = PENDIENTE} |-> q[i]]

\* DELETE FROM offline_queue WHERE estado = 'ENVIADO'
delete_sent(q) ==
    [i \in {j \in DOMAIN q : q[j].estado # ENVIADO} |-> q[i]]

PendingIds(q) == {i \in DOMAIN q : q[i].estado = PENDIENTE}

\* ORDER BY fecha_creacion, ascending or descending: the positions of the
\* result each row of P can stand at. Rows with equal fecha_creacion come
\* in an order SQL leaves open, so a row stands at any of the positions
\* behind the rows that sort before it and not behind a row that sorts
\* after it.
positions(q, P, descending) ==
    LET before(i) == {j \in P : IF descending
                                THEN q[j].fecha_creacion > q[i].fecha_creacion
                                ELSE q[j].fecha_creacion < q[i].fecha_creacion}
        same(i) == {j \in P : q[j].fecha_creacion = q[i].fecha_creacion}
    IN  {[row |-> i, first |-> Cardinality(before(i)) + 1,
          last |-> Cardinality(before(i)) + Cardinality(same(i))] : i \in P}

\* The results of the ordered SELECT from position lo to position hi: no
\* row twice, each at a position it can stand at.
RECURSIVE order_by(_, _, _)
order_by(ranked, lo, hi) ==
    IF lo > hi THEN {<< >>}
    ELSE IF lo = hi
    THEN {<<r.row>> : r \in {x \in ranked : x.first <= lo /\ lo <= x.last}}
    ELSE LET mid == (lo + hi) \div 2
             head == order_by(ranked, lo, mid)
             tail == order_by(ranked, mid + 1, hi)
         IN  {c[1] \o c[2] : c \in
                {c \in head \X tail :
                    \A x \in DOMAIN c[1], y \in DOMAIN c[2] : c[1][x] # c[2][y]}}

\* The same SELECT with ORDER BY fecha_creacion DESC.
select_pending_desc(q, limit) ==
    LET P == PendingIds(q)
    IN  order_by(positions(q, P, TRUE), 1, Min(limit, Cardinality(P)))

\* SELECT ... WHERE estado = 'PENDIENTE' ORDER BY fecha_creacion ASC LIMIT ?
\* The PENDIENTE rows in an order that is ascending in fecha_creacion, cut
\* to the limit.
select_pending(q, limit) ==
    LET P == PendingIds(q)
    IN  order_by(positions(q, P, FALSE), 1, Min(limit, Cardinality(P)))

\* OfflineQueueItem built from one row of the result.
OfflineQueueItem(q, id) ==
    [id |-> id, attempts |-> q[id].intentos,
     created_at |-> q[id].fecha_creacion,
     last_attempt |-> q[id].ultimo_intento, status |-> PENDIENTE,
     error_message |-> None]

\* The tokens the predicates of OfflineQueueItem test.
PROCESADO == "PROCESADO"
RetryLimit == 3

\* OfflineQueueItem.is_pending, is_processed, is_error, should_retry
is_pending(item) == item.status = PENDIENTE
is_processed(item) == item.status = PROCESADO
is_error(item) == item.status = "ERROR"
should_retry(item) == is_pending(item) /\ item.attempts < RetryLimit

get_pending_items(q, limit) ==
    {[i \in 1..Len(rows) |-> OfflineQueueItem(q, rows[i])] :
        rows \in select_pending(q, limit)}

\* ------------------------------------------------- what the log lines say
\* "Item {queue_id} marcado como enviado": written after the UPDATE,
\* whatever it matched.
LogSent(c, id) == [c EXCEPT ![id].sent = @ + 1]

\* "Item {queue_id} marcado como {estado} (intento ...)": written when the
\* SELECT of mark_as_failed read a row.
LogFailed(c, intentos, id) ==
    IF intentos # NULL THEN [c EXCEPT ![id].failed = @ + 1] ELSE c

\* "Eliminados {count} items enviados de la cola": the rows that left the
\* table, each with the estado it had.
LogRemoved(r, c, q, q2) ==
    [removed |-> [i \in DOMAIN r |-> IF i \in DOMAIN q /\ i \notin DOMAIN q2
                                     THEN q[i].estado ELSE r[i]],
     calls |-> [i \in DOMAIN c |-> IF i \in DOMAIN q /\ i \notin DOMAIN q2
                                   THEN NoCalls ELSE c[i]]]

\* ------------------------------------------------------------------ Init
\* No call is under way and nothing but the queue holds anything.
Idle ==
    /\ pc = "idle"
    /\ pending_items = << >>
    /\ idx = 0
    /\ processed = 0
    /\ success = 0
    /\ failed = 0
    /\ drain_row = NULL
    /\ drain_now = NULL
    /\ ret = NoReturn
    /\ threads = [t \in Threads |-> IdleThread]
    /\ envios = << >>
    /\ hseq = 0
    /\ conns = 0
    /\ txn = NoTxn
    /\ cache = NoStats
    /\ last_updated = NULL
    /\ dashboard = NoDashboard
    /\ backfill = NoBackfill

\* The state every specification starts from, but for max_retries and the
\* batch: the tables are empty.
Empty ==
    /\ queue = << >>
    /\ seq = 0
    /\ clock = 0
    /\ calls = [i \in Ids |-> NoCalls]
    /\ removed = [i \in Ids |-> "no"]
    /\ last_error = [i \in Ids |-> None]
    /\ Idle

\* No batch has been loaded.
NoBatch ==
    /\ df_factura = NoFrame
    /\ df_conceptos = NoFrame
    /\ arg = << >>

\* Direct callers of the service, each behaviour with one max_retries.
Init ==
    /\ Empty
    /\ NoBatch
    /\ max_retries \in RetriesArgs

\* Every mark_as_failed is called with the default max_retries, as the drain
\* calls it.
InitDrain ==
    /\ Empty
    /\ NoBatch
    /\ max_retries = DefaultMaxRetries

\* The drain starts on the backlog, every row of it PENDIENTE with no
\* attempt made, and add_to_queue is called no more. The clock stands
\* still, so every attempt is stamped with the one time.
InitBacklog ==
    /\ queue = [i \in 1..Backlog |-> NewRow(Queued(i))]
    /\ seq = Backlog
    /\ clock = MaxClock
    /\ calls = [i \in 1..Backlog |-> NoCalls]
    /\ removed = [i \in 1..Backlog |-> "no"]
    /\ last_error = [i \in 1..Backlog |-> None]
    /\ Idle
    /\ NoBatch
    /\ max_retries = DefaultMaxRetries

\* No caller of mark_as_failed: the history and the database functions.
InitStore ==
    /\ Empty
    /\ NoBatch
    /\ max_retries = DefaultMaxRetries

\* --------------------------------------------------- service operations
\* The wall clock advances.
Tick ==
    /\ clock < MaxClock
    /\ clock' = clock + 1
    /\ UNCHANGED <<queue, seq, max_retries, drainVars, ret, calls, removed, threads,
                   restVars>>

\* The calls of the service run statement by statement: datetime.now() is
\* read before the connection of the statement that stores it is opened,
\* and fetch_one and execute open and close a connection each, so a caller
\* t holds what it read while the clock moves and other callers' statements
\* run.
\* The calls of add_to_queue that have read the clock and not yet inserted.
Adding == {t \in Threads : threads[t].pc = "add_to_queue"}

\* The calls of mark_as_sent on id that have read the clock and not yet
\* written.
Sending(id) ==
    {t \in Threads : threads[t].pc = "mark_as_sent" /\ threads[t].id = id}

\* The calls of mark_as_failed on id that have read the row and not yet
\* written it.
InFlight(id) == {t \in Threads : threads[t].pc = "fetched" /\ threads[t].id = id}

\* No caller is inside a call.
Alone == \A t \in Threads : threads[t].pc = "idle"

\* No call of the drain, of the backfill or of a direct caller is under way.
Quiet == pc = "idle" /\ backfill.pc = "idle" /\ Alone

\* OfflineQueueService.add_to_queue up to its connection:
\* fecha_creacion = datetime.now().strftime(...)
EnqueueNow(t) ==
    /\ threads[t].pc = "idle"
    /\ seq + Cardinality(Adding) < MaxItems
    /\ threads' = [threads EXCEPT ![t] = [pc |-> "add_to_queue", now |-> clock]]
    /\ UNCHANGED <<queue, seq, clock, max_retries, drainVars, ret, calls, removed,
                   restVars>>

\* with get_connection() as conn: the INSERT with the fecha_creacion read
\* before, lastrowid of an AUTOINCREMENT key, commit; return queue_id
EnqueueInsert(t) ==
    /\ threads[t].pc = "add_to_queue"
    /\ next_rowid(queue, seq) \in Ids
    /\ queue' = add_to_queue(queue, next_rowid(queue, seq), threads[t].now)
    /\ seq' = IF next_rowid(queue, seq) > seq THEN next_rowid(queue, seq) ELSE seq
    /\ ret' = [op |-> "add_to_queue", val |-> next_rowid(queue, seq)]
    /\ threads' = [threads EXCEPT ![t] = IdleThread]
    /\ UNCHANGED <<clock, max_retries, drainVars, calls, removed, restVars>>

\* OfflineQueueService.mark_as_sent called directly, up to its execute: the
\* arguments of the UPDATE are built, datetime.now() among them.
MarkAsSentNow(t, id) ==
    /\ threads[t].pc = "idle"
    /\ id \in Ids
    /\ calls[id].sent + Cardinality(Sending(id)) < MaxSentCalls
    /\ threads' = [threads EXCEPT ![t] = [pc |-> "mark_as_sent", id |-> id,
                                          now |-> clock]]
    /\ UNCHANGED <<queue, seq, clock, max_retries, drainVars, ret, calls, removed,
                   restVars>>

\* execute(query, (now, queue_id)): one UPDATE, then the info line, whatever
\* the UPDATE matched.
MarkAsSentUpdate(t) ==
    /\ threads[t].pc = "mark_as_sent"
    /\ queue' = mark_as_sent(queue, threads[t].id, threads[t].now)
    /\ calls' = LogSent(calls, threads[t].id)
    /\ ret' = NoReturn
    /\ threads' = [threads EXCEPT ![t] = IdleThread]
    /\ UNCHANGED <<seq, clock, max_retries, drainVars, removed, restVars>>

\* OfflineQueueService.get_pending_items called directly.
GetPendingItems(limit) ==
    /\ \E items \in get_pending_items(queue, limit) :
          ret' = [op |-> "get_pending_items", val |-> items, limit |-> limit]
    /\ UNCHANGED <<queue, seq, clock, max_retries, drainVars, calls, removed, threads,
                   restVars>>

\* row = fetch_one("SELECT intentos ...", (queue_id,)); a caller gives an
\* item up one attempt past max_retries. since: the time of the SELECT.
FailedFetch(t, id) ==
    /\ threads[t].pc = "idle"
    /\ id \in Ids
    /\ calls[id].failed + Cardinality(InFlight(id)) <= max_retries
    /\ threads' = [threads EXCEPT ![t] = [pc |-> "fetched", id |-> id,
                                          row |-> select_intentos(queue, id),
                                          since |-> clock]]
    /\ UNCHANGED <<queue, seq, clock, max_retries, drainVars, ret, calls, removed,
                   restVars>>

\* if row: ... execute(query_update, (estado, intentos, now, queue_id)) and
\* the warning line; nothing when no row was read. now is read while the
\* arguments are built, after the SELECT and before the connection of the
\* UPDATE is opened.
FailedUpdate(t) ==
    /\ threads[t].pc = "fetched"
    /\ \E now \in threads[t].since..clock :
          queue' = update_failed(queue, threads[t].id, threads[t].row,
                                 max_retries, now)
    /\ calls' = LogFailed(calls, threads[t].row, threads[t].id)
    /\ threads' = [threads EXCEPT ![t] = IdleThread]
    /\ ret' = NoReturn
    /\ UNCHANGED <<seq, clock, max_retries, drainVars, removed, restVars>>

\* The same statements, with the error_msg of the warning line on record.
\* error_msg goes into no SQL statement.
FailedUpdateLogged(t, error_msg) ==
    /\ threads[t].pc = "fetched"
    /\ \E now \in threads[t].since..clock :
          queue' = update_failed(queue, threads[t].id, threads[t].row,
                                 max_retries, now)
    /\ calls' = LogFailed(calls, threads[t].row, threads[t].id)
    /\ last_error' = IF threads[t].row # NULL
                     THEN [last_error EXCEPT ![threads[t].id] = error_msg]
                     ELSE last_error
    /\ threads' = [threads EXCEPT ![t] = IdleThread]
    /\ ret' = NoReturn
    /\ UNCHANGED <<seq, clock, max_retries, drainVars, removed, storeVars,
                   batchVars, statsVars>>

\* count_row = fetch_one("SELECT COUNT(*) ... WHERE estado = 'ENVIADO'")
ClearCount(t) ==
    /\ threads[t].pc = "idle"
    /\ threads' = [threads EXCEPT ![t] = [pc |-> "counted",
                                          row |-> count_sent(queue)]]
    /\ UNCHANGED <<queue, seq, clock, max_retries, drainVars, ret, calls, removed,
                   restVars>>

\* execute("DELETE FROM offline_queue WHERE estado = 'ENVIADO'"); return count
ClearDelete(t) ==
    /\ threads[t].pc = "counted"
    /\ queue' = delete_sent(queue)
    /\ calls' = LogRemoved(removed, calls, queue, delete_sent(queue)).calls
    /\ removed' = LogRemoved(removed, calls, queue, delete_sent(queue)).removed
    /\ ret' = [op |-> "clear_sent_items", val |-> threads[t].row]
    /\ threads' = [threads EXCEPT ![t] = IdleThread]
    /\ UNCHANGED <<seq, clock, max_retries, drainVars, restVars>>

\* ------------------------------------------- process_offline_queue (drain)
\* pending_items = self.offline_service.get_pending_items(); the early
\* return when nothing is pending.
DrainStart ==
    /\ pc \in {"idle", "crashed", "crashed_delivered"}
    /\ \E items \in get_pending_items(queue, DefaultLimit) :
          IF items = << >>
          THEN /\ ret' = [op |-> "process_offline_queue",
                          val |-> [processed |-> 0, success |-> 0, failed |-> 0]]
               /\ pc' = "idle"
               /\ pending_items' = << >>
               /\ idx' = 0
          ELSE /\ ret' = NoReturn
               /\ pc' = "deliver"
               /\ pending_items' = items
               /\ idx' = 1
    /\ processed' = 0
    /\ success' = 0
    /\ failed' = 0
    /\ UNCHANGED <<queue, seq, clock, max_retries, drain_row, drain_now, calls,
                   removed, threads, restVars>>

\* progress_callback(...) raises: the call stands before the try, so the
\* exception leaves process_offline_queue; nothing is marked and nothing is
\* returned.
DrainCallbackRaises ==
    /\ pc = "deliver"
    /\ pc' = "idle"
    /\ pending_items' = << >>
    /\ idx' = 0
    /\ processed' = 0
    /\ success' = 0
    /\ failed' = 0
    /\ ret' = Raised
    /\ UNCHANGED <<queue, seq, clock, max_retries, drain_row, drain_now, calls,
                   removed, threads, restVars>>

\* The callback, when there is one, returns; then the body of the try: the
\* resend to the remote API, which either succeeds or raises, and after a
\* resend that succeeded mark_as_sent up to its execute, where it reads
\* datetime.now().
DrainDeliver(ok) ==
    /\ pc = "deliver"
    /\ pc' = IF ok THEN "mark_as_sent" ELSE "mark_as_failed"
    /\ drain_now' = IF ok THEN clock ELSE NULL
    /\ UNCHANGED <<queue, seq, clock, max_retries, pending_items, idx, processed,
                   success, failed, drain_row, ret, calls, removed, threads,
                   restVars>>

\* A loop that attempts the item again while it is still PENDIENTE.
DrainRepeat(s, f) ==
    LET id == pending_items[idx].id
        again == id \in DOMAIN queue' /\ queue'[id].estado = PENDIENTE
        more == again \/ idx < Len(pending_items)
    IN  /\ processed' = processed + 1
        /\ success' = s
        /\ failed' = f
        /\ idx' = IF again THEN idx ELSE IF more THEN idx + 1 ELSE 0
        /\ pc' = IF more THEN "deliver" ELSE "idle"
        /\ ret' = IF more THEN NoReturn
                  ELSE [op |-> "process_offline_queue",
                        val |-> [processed |-> processed + 1, success |-> s,
                                 failed |-> f]]
        /\ pending_items' = IF more THEN pending_items ELSE << >>

\* End of one iteration: processed += 1, then the next item or the return.
DrainAdvance(s, f) ==
    /\ processed' = processed + 1
    /\ success' = s
    /\ failed' = f
    /\ IF idx < Len(pending_items)
       THEN /\ idx' = idx + 1
            /\ pc' = "deliver"
            /\ ret' = NoReturn
       ELSE /\ idx' = 0
            /\ pc' = "idle"
            /\ ret' = [op |-> "process_offline_queue",
                       val |-> [processed |-> processed + 1, success |-> s,
                                failed |-> f]]
    /\ pending_items' = IF idx < Len(pending_items) THEN pending_items ELSE << >>

\* The execute of self.offline_service.mark_as_sent(item.id), with the time
\* read before; success += 1
DrainMarkSent ==
    /\ pc = "mark_as_sent"
    /\ queue' = mark_as_sent(queue, pending_items[idx].id, drain_now)
    /\ calls' = LogSent(calls, pending_items[idx].id)
    /\ drain_now' = NULL
    /\ DrainAdvance(success + 1, failed)
    /\ UNCHANGED <<seq, clock, max_retries, drain_row, removed, threads, restVars>>

\* except Exception: self.offline_service.mark_as_failed(item.id, str(e)),
\* its fetch_one.
DrainFailedFetch ==
    /\ pc = "mark_as_failed"
    /\ pc' = "update_failed"
    /\ drain_row' = select_intentos(queue, pending_items[idx].id)
    /\ drain_now' = clock
    /\ UNCHANGED <<queue, seq, clock, max_retries, pending_items, idx, processed,
                   success, failed, ret, calls, removed, threads, restVars>>

\* Its execute, when a row was read, with the time read since the SELECT,
\* and its warning line; failed += 1
DrainFailedUpdate ==
    /\ pc = "update_failed"
    /\ \E now \in drain_now..clock :
          queue' = update_failed(queue, pending_items[idx].id, drain_row,
                                 DefaultMaxRetries, now)
    /\ calls' = LogFailed(calls, drain_row, pending_items[idx].id)
    /\ drain_row' = NULL
    /\ drain_now' = NULL
    /\ DrainAdvance(success, failed + 1)
    /\ UNCHANGED <<seq, clock, max_retries, removed, threads, restVars>>

\* The process dies inside the loop: its locals are gone, the table keeps
\* what was committed. "crashed_delivered": it died between a delivery that
\* succeeded and the mark_as_sent that records it.
DrainCrash ==
    /\ pc \in {"deliver", "mark_as_sent", "mark_as_failed", "update_failed"}
    /\ pc' = IF pc = "mark_as_sent" THEN "crashed_delivered" ELSE "crashed"
    /\ pending_items' = << >>
    /\ idx' = 0
    /\ processed' = 0
    /\ success' = 0
    /\ failed' = 0
    /\ drain_row' = NULL
    /\ drain_now' = NULL
    /\ ret' = NoReturn
    /\ UNCHANGED <<queue, seq, clock, max_retries, calls, removed, threads,
                   restVars>>

\* One direct caller of add_to_queue, mark_as_sent and mark_as_failed: its
\* calls run one after another, each to its end. With no other caller a
\* second that passes inside a call leaves what one that passes after the
\* call leaves, so the clock moves between calls.
Next ==
    \/ Alone /\ Tick
    \/ EnqueueNow(1)
    \/ EnqueueInsert(1)
    \/ \E id \in Ids : MarkAsSentNow(1, id)
    \/ MarkAsSentUpdate(1)
    \/ \E id \in Ids : FailedFetch(1, id)
    \/ FailedUpdate(1)

Spec == Init /\ [][Next]_vars

\* The same caller, with the default max_retries, also clears the sent items.
NextSweep ==
    \/ Alone /\ Tick
    \/ EnqueueNow(1)
    \/ EnqueueInsert(1)
    \/ \E id \in Ids : MarkAsSentNow(1, id)
    \/ MarkAsSentUpdate(1)
    \/ \E id \in Ids : FailedFetch(1, id)
    \/ FailedUpdate(1)
    \/ ClearCount(1)
    \/ ClearDelete(1)

SpecSweep == InitDrain /\ [][NextSweep]_vars

\* The drain, step by step, while another caller enqueues items and clears
\* the sent ones.
NextDrain ==
    \/ Tick
    \/ EnqueueNow(1)
    \/ EnqueueInsert(1)
    \/ ClearCount(1)
    \/ ClearDelete(1)
    \/ DrainStart
    \/ DrainCallbackRaises
    \/ \E ok \in BOOLEAN : DrainDeliver(ok)
    \/ DrainMarkSent
    \/ DrainFailedFetch
    \/ DrainFailedUpdate
    \/ DrainCrash

SpecDrain == InitDrain /\ [][NextDrain]_vars

\* Reads of the pending items, by the drain and, between drains, by direct
\* callers with a limit, while callers whose add_to_queue overlap enqueue
\* items and the drain marks them.
NextFifo ==
    \/ Tick
    \/ \E t \in Threads : EnqueueNow(t)
    \/ \E t \in Threads : EnqueueInsert(t)
    \/ \E limit \in Limits : pc = "idle" /\ GetPendingItems(limit)
    \/ DrainStart
    \/ DrainCallbackRaises
    \/ \E ok \in BOOLEAN : DrainDeliver(ok)
    \/ DrainMarkSent
    \/ DrainFailedFetch
    \/ DrainFailedUpdate

SpecFifo == InitDrain /\ [][NextFifo]_vars

\* The invoices the remote API refuses at every attempt: the DefaultLimit
\* oldest of a backlog, which fill every read of the pending items until
\* they are FALLIDO.
Refused(q, id) ==
    id \in DOMAIN q /\ q[id].fecha_creacion < Queued(DefaultLimit + 1)

\* The body of the try for the item the loop stands at: the resend of an
\* invoice the API refuses raises, that of any other invoice succeeds or
\* raises.
DrainResend ==
    /\ pc = "deliver"
    /\ \E ok \in BOOLEAN :
          /\ Refused(queue, pending_items[idx].id) => ~ok
          /\ DrainDeliver(ok)

\* The drain under the scheduling the claim of progress assumes: drains
\* keep being run, with no progress_callback (its default), and a started
\* drain runs to its end. clear_sent_items is called between drains; its
\* DELETE may come after a later drain has started. The queue is empty at
\* first and fills call by call, or holds a backlog.
NextLive ==
    \/ Tick
    \/ EnqueueNow(1)
    \/ EnqueueInsert(1)
    \/ pc = "idle" /\ ClearCount(1)
    \/ ClearDelete(1)
    \/ DrainStart
    \/ DrainResend
    \/ DrainMarkSent
    \/ DrainFailedFetch
    \/ DrainFailedUpdate

SpecLive ==
    /\ InitDrain \/ InitBacklog
    /\ [][NextLive]_vars
    /\ WF_vars(DrainStart)
    /\ WF_vars(DrainResend)
    /\ WF_vars(DrainMarkSent)
    /\ WF_vars(DrainFailedFetch)
    /\ WF_vars(DrainFailedUpdate)

\* Concurrent callers of add_to_queue and mark_as_failed.
NextConc ==
    \/ Tick
    \/ \E t \in Threads : EnqueueNow(t)
    \/ \E t \in Threads : EnqueueInsert(t)
    \/ \E t \in Threads, id \in Ids : FailedFetch(t, id)
    \/ \E t \in Threads : FailedUpdate(t)

SpecConc == Init /\ [][NextConc]_vars

\* One caller enqueues items and clears the sent ones while another marks
\* items.
NextClear ==
    \/ Tick
    \/ EnqueueNow(1)
    \/ EnqueueInsert(1)
    \/ \E id \in Ids : MarkAsSentNow(2, id)
    \/ MarkAsSentUpdate(2)
    \/ \E id \in Ids : FailedFetch(2, id)
    \/ FailedUpdate(2)
    \/ ClearCount(1)
    \/ ClearDelete(1)

SpecClear == InitDrain /\ [][NextClear]_vars

\* ------------------------------------------- failures and their messages
\* A caller that enqueues items and reports failures with their error text,
\* while the pending items are read back.
NextErr ==
    \/ Tick
    \/ EnqueueNow(1)
    \/ EnqueueInsert(1)
    \/ \E id \in Ids : FailedFetch(1, id)
    \/ \E error_msg \in Errors : FailedUpdateLogged(1, error_msg)
    \/ \E limit \in Limits : GetPendingItems(limit)

SpecErr == Init /\ [][NextErr]_vars

\* ------------------------------------------------------------------ texts
\* A text is a sequence of one-character strings, so that strip, the
\* regular expression of normalize_invoice_id and LIKE can be computed.
Digits == {"0", "1", "2", "3", "4", "5", "6", "7", "8", "9"}

RECURSIVE lstrip(_)
lstrip(s) == IF s # << >> /\ Head(s) = " " THEN lstrip(Tail(s)) ELSE s

RECURSIVE rstrip(_)
rstrip(s) ==
    IF s # << >> /\ s[Len(s)] = " " THEN rstrip(SubSeq(s, 1, Len(s) - 1)) ELSE s

\* str.strip()
strip(s) == rstrip(lstrip(s))

\* The length of the \d+ prefix of s when re.fullmatch(r"\d+(?:\.0+)?", s)
\* matches, 0 when it does not.
fullmatch_numeric(s) ==
    LET ks == {k \in 1..Len(s) :
                 /\ \A i \in 1..k : s[i] \in Digits
                 /\ \/ k = Len(s)
                    \/ /\ k + 2 <= Len(s)
                       /\ s[k + 1] = "."
                       /\ \A i \in (k + 2)..Len(s) : s[i] = "0"}
    IN  IF ks = {} THEN 0 ELSE CHOOSE k \in ks : TRUE

\* The decimal digits, and the value of one.
DigitChars == <<"0", "1", "2", "3", "4", "5", "6", "7", "8", "9">>
digit(c) == (CHOOSE i \in 1..Len(DigitChars) : DigitChars[i] = c) - 1

\* int(digits) of a string of digits below 2^31.
RECURSIVE int(_)
int(ds) ==
    IF ds = << >> THEN 0
    ELSE 10 * int(SubSeq(ds, 1, Len(ds) - 1)) + digit(ds[Len(ds)])

\* The digits of n, with leading zeros up to the width.
RECURSIVE chars(_, _)
chars(n, width) ==
    IF n < 10 /\ width <= 1 THEN <<DigitChars[n + 1]>>
    ELSE chars(n \div 10, width - 1) \o <<DigitChars[(n % 10) + 1]>>

\* Whole numbers of at most 17 digits are pairs <<hi, lo>> standing for
\* hi * 10^8 + lo: they pass 2^31.
whole(ds) ==
    IF Len(ds) <= 8 THEN <<0, int(ds)>>
    ELSE <<int(SubSeq(ds, 1, Len(ds) - 8)),
           int(SubSeq(ds, Len(ds) - 7, Len(ds)))>>

less(a, b) == a[1] < b[1] \/ (a[1] = b[1] /\ a[2] < b[2])

\* The significand of a Python float (IEEE 754 binary64).
MantissaBits == 53

\* 2^e for the e a number of 17 digits can reach.
TwoTo(e) ==
    CASE e = MantissaBits -> <<90071992, 54740992>>
      [] e = MantissaBits + 1 -> <<180143985, 9481984>>
      [] e = MantissaBits + 2 -> <<360287970, 18963968>>
      [] e = MantissaBits + 3 -> <<720575940, 37927936>>

\* float(s) of a whole number of at most 17 digits: the nearest number with
\* MantissaBits significant bits, ties to the even significand. From 2^e on
\* the floats are 2^(e - MantissaBits + 1) apart, which divides 10^8.
float(n) ==
    LET step == 2^Cardinality({e \in MantissaBits..(MantissaBits + 3) :
                                  ~less(n, TwoTo(e))})
        r == n[2] % step
        down == n[2] - r
        up == 2 * r > step \/ (2 * r = step /\ down % (2 * step) # 0)
        lo == IF up THEN down + step ELSE down
    IN  <<n[1] + (lo \div 10^8), lo % 10^8>>

\* str(int(f)) of a float holding a whole number: no leading zeros, "0"
\* for zero.
str_int(f) ==
    IF f[1] = 0 THEN chars(f[2], 1) ELSE chars(f[1], 1) \o chars(f[2], 8)

\* The float nan pandas reads from a blank cell; text is a tuple of
\* characters.
NaN == <<"NaN">>

\* str(x) of a cell.
str(x) == IF x = NaN THEN <<"n", "a", "n">> ELSE x

\* not x, for a cell: the empty string is false, nan is true.
not(x) == x = << >>

\* InvoiceProcessingService.normalize_invoice_id: the digits before ".0..."
\* without leading zeros when the stripped text is numeric (exact while the
\* number is below 2^53), the stripped text otherwise.
normalize_invoice_id(invoice_id) ==
    LET s == strip(str(invoice_id))
        k == fullmatch_numeric(s)
    IN  IF k > 0 THEN str_int(float(whole(SubSeq(s, 1, k)))) ELSE s

\* ASCII lower case of a character, as LIKE folds it.
lower(c) ==
    CASE c = "A" -> "a"
      [] c = "B" -> "b"
      [] c = "I" -> "i"
      [] c = "J" -> "j"
      [] c = "K" -> "k"
      [] OTHER -> c

\* text LIKE pattern in SQLite: % matches any run of characters, _ any one
\* character, every other character matches itself without regard to
\* ASCII case.
RECURSIVE like(_, _)
like(text, pattern) ==
    IF pattern = << >> THEN text = << >>
    ELSE IF Head(pattern) = "%"
         THEN \E k \in 0..Len(text) :
                 like(SubSeq(text, k + 1, Len(text)), Tail(pattern))
    ELSE IF text = << >> THEN FALSE
    ELSE /\ Head(pattern) = "_" \/ lower(Head(pattern)) = lower(Head(text))
         /\ like(Tail(text), Tail(pattern))

\* f"%{search_text}%"
search_pattern(search_text) == <<"%">> \o search_text \o <<"%">>

\* ------------------------------------------------------- the envios table
OK == "OK"
ERROR == "ERROR"
DESCONOCIDO == "DESCONOCIDO"

\* The entries of summary_data callers pass: one invoice sent, the same
\* invoice with its number as a spreadsheet float and the keys "status" and
\* "total", and two invoices of another company whose numbers differ in one
\* character, the second under the keys of the spreadsheet and with no
\* estado.
SentItem ==
    [num_factura |-> <<"7">>, empresa |-> <<"A", "b">>, cliente |-> <<"J">>,
     estado |-> OK, importe |-> 100]

SummaryItems ==
    { SentItem,
      [num_factura |-> <<"7", ".", "0">>, empresa |-> <<"A", "b">>,
       cliente |-> <<"J">>, status |-> ERROR, total |-> 0],
      [num_factura |-> <<"I", "_", "7">>, empresa |-> <<"B">>,
       cliente |-> <<"K">>, estado |-> PENDIENTE, importe |-> 50],
      [NumFactura |-> <<"I", "x", "7">>, empresa_emisora |-> <<"B">>,
       cliente_nombre |-> <<"K">>, importe |-> 20] }

\* The summary_data lists of at most n entries.
Batches(n) == UNION {[1..k -> SummaryItems] : k \in 0..n}

\* item.get(key, default)
get(item, key, default) == IF key \in DOMAIN item THEN item[key] ELSE default

\* Python values of the types parse_amount tells apart.
PyStr(s) == [type |-> "str", value |-> s]
PyInt(n) == [type |-> "int", value |-> n]
PyBool(b) == [type |-> "bool", value |-> b]
\* A float, held as its repr.
PyFloat(repr) == [type |-> "float", value |-> repr]
PyNone == [type |-> "NoneType"]
PyList == [type |-> "list"]

\* A Decimal: coef * 10^exp, as the constructor keeps them.
Decimal(coef, exp) == [coef |-> coef, exp |-> exp]
\* Decimal('Infinity')
DecimalInfinity == [inf |-> "Infinity"]
\* Decimal('NaN') and Decimal('sNaN') with their diagnostic digits, held as
\* a number: 0 for none (Decimal('NaN0') is Decimal('NaN')), 7 for NaN7.
QuietNaN(payload) == [nan |-> "NaN", payload |-> payload]
SignalingNaN(payload) == [nan |-> "sNaN", payload |-> payload]
DecimalNaN == QuietNaN(0)
\* Decimal.is_finite(), is_infinite(), is_nan() and is_snan()
is_finite(d) == "coef" \in DOMAIN d
is_infinite(d) == "inf" \in DOMAIN d
is_nan(d) == "nan" \in DOMAIN d
is_snan(d) == is_nan(d) /\ d.nan = "sNaN"
PyDecimal(d) == [type |-> "Decimal", value |-> d]

\* decimal.InvalidOperation, raised.
InvalidOperation == [exc |-> "InvalidOperation"]

\* str.replace(old, new) for a one-character old.
RECURSIVE replace(_, _, _)
replace(s, old, new) ==
    IF s = << >> THEN << >>
    ELSE (IF Head(s) = old THEN new ELSE <<Head(s)>>)
         \o replace(Tail(s), old, new)

\* old in s
in(old, s) == \E i \in 1..Len(s) : s[i] = old

\* str(x) of an int that is not negative, of a bool, of a float and of a
\* text.
RECURSIVE str_number(_)
str_number(x) ==
    CASE x.type = "bool" ->
             IF x.value THEN <<"T", "r", "u", "e">>
             ELSE <<"F", "a", "l", "s", "e">>
      [] x.type \in {"float", "str"} -> x.value
      [] OTHER ->
             IF x.value < 10 THEN <<DigitChars[x.value + 1]>>
             ELSE str_number(PyInt(x.value \div 10))
                  \o <<DigitChars[(x.value % 10) + 1]>>

\* The lower case of the letters of the special values Decimal() reads in
\* either case.
decimal_lower(c) ==
    CASE c = "A" -> "a"
      [] c = "F" -> "f"
      [] c = "I" -> "i"
      [] c = "N" -> "n"
      [] c = "S" -> "s"
      [] c = "T" -> "t"
      [] c = "Y" -> "y"
      [] OTHER -> c

\* Decimal(text) of a text without sign, exponent or underscore, between
\* whitespace: inf or infinity, nan or snan followed by any diagnostic
\* digits, each in either case, or digits with at most one point; anything
\* else raises.
decimal_of(text) ==
    LET t == strip(text)
        low == [i \in 1..Len(t) |-> decimal_lower(t[i])]
        starts(word) == Len(low) >= Len(word) /\ SubSeq(low, 1, Len(word)) = word
        diag(word) == SubSeq(t, Len(word) + 1, Len(t))
        digits(ds) == \A i \in 1..Len(ds) : ds[i] \in Digits
        points == {i \in 1..Len(t) : t[i] = "."}
        ds == SelectSeq(t, LAMBDA c : c # ".")
    IN  IF low = <<"i", "n", "f">>
           \/ low = <<"i", "n", "f", "i", "n", "i", "t", "y">>
        THEN DecimalInfinity
        ELSE IF starts(<<"n", "a", "n">>) /\ digits(diag(<<"n", "a", "n">>))
        THEN QuietNaN(int(diag(<<"n", "a", "n">>)))
        ELSE IF /\ starts(<<"s", "n", "a", "n">>)
                /\ digits(diag(<<"s", "n", "a", "n">>))
        THEN SignalingNaN(int(diag(<<"s", "n", "a", "n">>)))
        ELSE IF /\ Cardinality(points) <= 1
                /\ ds # << >>
                /\ digits(ds)
        THEN Decimal(int(ds),
                     IF points = {} THEN 0
                     ELSE (CHOOSE i \in points : TRUE) - Len(t))
        ELSE InvalidOperation

\* The string branch of parse_amount before Decimal(): currency symbols and
\* surrounding spaces removed, then "." dropped and "," made the point when
\* both occur, "," made the point when only it occurs.
cleaned(raw_amount) ==
    LET c == strip(replace(replace(raw_amount, "€", << >>), "$", << >>))
    IN  IF in(",", c) /\ in(".", c)
        THEN replace(replace(c, ".", << >>), ",", <<".">>)
        ELSE IF in(",", c) THEN replace(c, ",", <<".">>)
        ELSE c

\* InvoiceProcessingService.parse_amount: a Decimal, or the exception that
\* leaves it.
parse_amount(raw_amount) ==
    CASE raw_amount.type = "Decimal" -> raw_amount.value
      [] raw_amount.type \in {"int", "bool", "float"} ->
             decimal_of(str_number(raw_amount))
      [] raw_amount.type = "str" ->
             IF decimal_of(cleaned(raw_amount.value)) = InvalidOperation
             THEN Decimal(0, -1)
             ELSE decimal_of(cleaned(raw_amount.value))
      [] OTHER -> Decimal(0, -1)

\* A Decimal brought as near to the ideal exponent as it goes with its
\* value kept: the exact quotient of a division, the digits of a float.
RECURSIVE reduce(_, _)
reduce(d, ideal) ==
    IF d.exp < ideal /\ d.coef % 10 = 0
    THEN reduce(Decimal(d.coef \div 10, d.exp + 1), ideal)
    ELSE d

\* float(d): the float nearest to coef * 10^exp, which prints as the number
\* itself while it has at most 15 significant digits. A float that is a
\* whole number is kept as that number (100.0 as 100), any other as the
\* Decimal without trailing zeros it prints as (1234.56 as 123456 * 10^-2).
\* Infinity gives the float inf, a NaN the float nan, which has no
\* diagnostic digits, and a signaling NaN raises ValueError.
float_of(d) ==
    IF is_snan(d) THEN [exc |-> "ValueError"]
    ELSE IF is_nan(d) THEN DecimalNaN
    ELSE IF is_infinite(d) THEN d
    ELSE LET r == reduce(d, 0)
         IN  IF r.exp >= 0 THEN r.coef * 10^r.exp ELSE r

\* The invoice_id of each entry callers pass, worked out once.
invoice_ids ==
    [item \in SummaryItems |->
        normalize_invoice_id(get(item, "num_factura", get(item, "NumFactura", << >>)))]

\* invoice_id = normalize_invoice_id(item.get("num_factura",
\* item.get("NumFactura", "")))
invoice_id_of(item) ==
    IF item \in DOMAIN invoice_ids THEN invoice_ids[item]
    ELSE normalize_invoice_id(get(item, "num_factura", get(item, "NumFactura", << >>)))

\* company = item.get("empresa", item.get("empresa_emisora", ""))
company_of(item) == get(item, "empresa", get(item, "empresa_emisora", << >>))

\* One tuple of rows_to_insert: the columns the queries read.
history_row(item, fecha_envio) ==
    [fecha_envio |-> fecha_envio,
     num_factura |-> invoice_id_of(item),
     empresa |-> company_of(item),
     estado |-> get(item, "estado", get(item, "status", DESCONOCIDO)),
     pdf_local_path |-> None,
     importe |-> float_of(parse_amount(
                     PyInt(get(item, "importe", get(item, "total", 0))))),
     cliente |-> get(item, "cliente", get(item, "cliente_nombre", << >>))]

\* rows_to_insert of save_to_history: every row with the one fecha_envio
\* taken before the loop.
rows_to_insert(summary_data, fecha_envio) ==
    [i \in 1..Len(summary_data) |-> history_row(summary_data[i], fecha_envio)]

\* INSERT INTO envios ... of one row, under the next AUTOINCREMENT id.
insert_row(t, sq, row) ==
    [i \in DOMAIN t \cup {sq + 1} |-> IF i = sq + 1 THEN row ELSE t[i]]

\* executemany of the INSERT over rows.
RECURSIVE insert_rows(_, _, _)
insert_rows(t, sq, rows) ==
    IF rows = << >> THEN t
    ELSE insert_rows(insert_row(t, sq, Head(rows)), sq + 1, Tail(rows))

\* DELETE FROM envios
delete_envios(t) == << >>

\* WHERE num_factura = ? AND empresa = ?
matching(t, invoice_id, company) ==
    {i \in DOMAIN t : t[i].num_factura = invoice_id /\ t[i].empresa = company}

\* The same UPDATE without ORDER BY ... LIMIT 1: every matching row.
update_all_matching(t, invoice_id, company, path) ==
    {[i \in DOMAIN t |->
        IF i \in matching(t, invoice_id, company)
        THEN [t[i] EXCEPT !.pdf_local_path = path] ELSE t[i]]}

\* UPDATE envios SET pdf_local_path = ? WHERE num_factura = ? AND
\* empresa = ? ORDER BY fecha_envio DESC LIMIT 1: the tables the statement
\* can leave. Among matching rows with the same newest fecha_envio the row
\* updated is the one the ORDER BY puts first, which SQL leaves open.
update_newest(t, invoice_id, company, path) ==
    LET m == matching(t, invoice_id, company)
        newest == {i \in m : \A j \in m : t[j].fecha_envio <= t[i].fecha_envio}
    IN  IF m = {} THEN {t}
        ELSE {[t EXCEPT ![i].pdf_local_path = path] : i \in newest}

\* ------------------------------------- get_connection and what runs in it
\* The statements the with-body of each database function runs, in order.
Commit == [sql |-> "COMMIT"]

\* executemany on a connection in autocommit mode: every row is committed
\* as it is inserted.
execute_many_autocommit(rows) ==
    IF rows = << >> THEN <<Commit>>
    ELSE [i \in 1..(2 * Len(rows)) |->
            IF i % 2 = 1 THEN [sql |-> "INSERT", row |-> rows[(i + 1) \div 2]]
            ELSE Commit]

\* execute_many: conn.executemany(query, params_seq); conn.commit()
execute_many(rows) ==
    [i \in 1..Len(rows) |-> [sql |-> "INSERT", row |-> rows[i]]] \o <<Commit>>

\* execute: conn.execute(query, params or []); conn.commit()
execute(statement) == <<statement, Commit>>

\* fetch_all, fetch_one: cur.execute(query, params or []); cur.fetch...()
fetch(statement) == <<statement>>

\* clear_history: DELETE FROM envios; commit; VACUUM; commit
clear_history == <<[sql |-> "DELETE"], Commit, [sql |-> "VACUUM"], Commit>>

\* init_database: CREATE TABLE IF NOT EXISTS, indexes, commit
init_database == <<[sql |-> "CREATE"], Commit>>

\* The tables one statement can leave in the connection's transaction.
run(statement, work, wseq) ==
    CASE statement.sql = "INSERT" -> {insert_row(work, wseq, statement.row)}
      [] statement.sql = "UPDATE" ->
            update_newest(work, statement.invoice_id, statement.company,
                          statement.path)
      [] statement.sql = "DELETE" -> {delete_envios(work)}
      [] OTHER -> {work}

\* A database function has been called by caller and is about to open its
\* connection.
Called(op, caller, readonly, body, args) ==
    [pc |-> "connect", op |-> op, caller |-> caller, readonly |-> readonly,
     todo |-> body, done |-> 0, exc |-> FALSE, work |-> envios, wseq |-> hseq,
     before |-> envios, args |-> args, now |-> clock]

\* What the caller gets when the function under way ends.
Outcome(t) ==
    [op |-> t.caller, args |-> t.args, exc |-> t.exc, done |-> t.done,
     val |-> CASE t.exc -> NULL
               [] t.caller = "save_to_history" -> Len(t.args)
               [] t.op \in {"fetch_all", "fetch_one"} -> Cardinality(DOMAIN t.work)
               [] OTHER -> NULL]

\* save_to_history: the early return on no data, else execute_many of the
\* rows built with the time read before the loop.
CallSaveToHistory(summary_data) ==
    /\ txn.pc = "idle"
    /\ hseq + Len(summary_data) <= MaxRows
    /\ IF summary_data = << >>
       THEN /\ ret' = [op |-> "save_to_history", args |-> summary_data,
                       exc |-> FALSE, done |-> 0, val |-> 0]
            /\ txn' = txn
       ELSE /\ ret' = NoReturn
            /\ txn' = Called("execute_many", "save_to_history", FALSE,
                             execute_many(rows_to_insert(summary_data, clock)),
                             summary_data)
    /\ UNCHANGED <<clock, envios, hseq, conns, queueVars>>

\* execute of the UPDATE of update_pdf_paths_in_history for one item.
CallExecute(item, path) ==
    /\ txn.pc = "idle"
    /\ txn' = Called("execute", "execute", FALSE,
                     execute([sql |-> "UPDATE",
                              invoice_id |-> invoice_id_of(item),
                              company |-> company_of(item), path |-> path]),
                     << >>)
    /\ ret' = NoReturn
    /\ UNCHANGED <<clock, envios, hseq, conns, queueVars>>

\* fetch_all or fetch_one of a SELECT, on a read-only connection.
CallFetch(op) ==
    /\ txn.pc = "idle"
    /\ txn' = Called(op, op, TRUE, fetch([sql |-> "SELECT"]), << >>)
    /\ ret' = NoReturn
    /\ UNCHANGED <<clock, envios, hseq, conns, queueVars>>

CallClearHistory ==
    /\ txn.pc = "idle"
    /\ txn' = Called("clear_history", "clear_history", FALSE, clear_history, << >>)
    /\ ret' = NoReturn
    /\ UNCHANGED <<clock, envios, hseq, conns, queueVars>>

CallInitDatabase ==
    /\ txn.pc = "idle"
    /\ txn' = Called("init_database", "init_database", FALSE, init_database, << >>)
    /\ ret' = NoReturn
    /\ UNCHANGED <<clock, envios, hseq, conns, queueVars>>

\* get_connection up to its yield: sqlite3.connect returns a connection,
\* or raises and the function is left with no connection opened.
GetConnection(ok) ==
    /\ txn.pc = "connect"
    /\ IF ok
       THEN /\ conns' = conns + 1
            /\ txn' = [txn EXCEPT !.pc = "body"]
            /\ ret' = ret
       ELSE /\ conns' = conns
            /\ txn' = NoTxn
            /\ ret' = Outcome([txn EXCEPT !.exc = TRUE])
    /\ UNCHANGED <<clock, envios, hseq, queueVars>>

\* The next statement of the with-body runs; a commit makes the work of
\* the connection the table. After the last statement the body is left.
Statement ==
    /\ txn.pc = "body"
    /\ txn.todo # << >>
    /\ \E w \in run(Head(txn.todo), txn.work, txn.wseq) :
          txn' = [txn EXCEPT
                    !.todo = Tail(@),
                    !.done = @ + 1,
                    !.work = w,
                    !.wseq = IF Head(txn.todo).sql = "INSERT" THEN @ + 1 ELSE @,
                    !.pc = IF Tail(txn.todo) = << >> THEN "finally" ELSE "body"]
    /\ IF Head(txn.todo).sql = "COMMIT"
       THEN envios' = txn.work /\ hseq' = txn.wseq
       ELSE UNCHANGED <<envios, hseq>>
    /\ UNCHANGED <<clock, conns, ret, queueVars>>

\* The next statement of the with-body raises: the body is left by the
\* exception.
StatementRaises ==
    /\ txn.pc = "body"
    /\ txn.todo # << >>
    /\ txn' = [txn EXCEPT !.pc = "finally", !.exc = TRUE]
    /\ UNCHANGED <<clock, envios, hseq, conns, ret, queueVars>>

\* A get_connection whose conn.close() follows the yield with no
\* try/finally: an exception in the body skips it.
CloseOnReturn ==
    /\ txn.pc = "finally"
    /\ conns' = IF txn.exc THEN conns ELSE conns - 1
    /\ ret' = Outcome(txn)
    /\ txn' = NoTxn
    /\ UNCHANGED <<clock, envios, hseq, queueVars>>

\* finally: conn.close(). What the connection did not commit is gone; the
\* function returns, or the exception goes on to the caller.
Close ==
    /\ txn.pc = "finally"
    /\ conns' = conns - 1
    /\ ret' = Outcome(txn)
    /\ txn' = NoTxn
    /\ UNCHANGED <<clock, envios, hseq, queueVars>>

\* The database functions, step by step, called one at a time.
NextStore ==
    \/ Tick
    \/ \E summary_data \in Batches(MaxRows) : CallSaveToHistory(summary_data)
    \/ \E item \in SummaryItems, path \in Paths : CallExecute(item, path)
    \/ \E op \in {"fetch_all", "fetch_one"} : CallFetch(op)
    \/ CallClearHistory
    \/ CallInitDatabase
    \/ \E ok \in BOOLEAN : GetConnection(ok)
    \/ Statement
    \/ StatementRaises
    \/ Close

SpecStore == InitStore /\ [][NextStore]_vars

\* ------------------------------------------------- the history operations
\* The rows the calls of save_to_history that have read the clock and not
\* yet inserted are about to insert.
RECURSIVE unsaved(_)
unsaved(T) ==
    IF T = {} THEN 0
    ELSE LET t == CHOOSE u \in T : TRUE
         IN  (IF threads[t].pc = "save_to_history"
              THEN Len(threads[t].summary_data) ELSE 0) + unsaved(T \ {t})

\* save_to_history with no error from the store, up to its execute_many:
\* the early return on no data, else fecha_envio = datetime.now() and the
\* loop that builds rows_to_insert.
SaveToHistoryNow(t, summary_data) ==
    /\ threads[t].pc = "idle"
    /\ hseq + unsaved(Threads) + Len(summary_data) <= MaxRows
    /\ IF summary_data = << >>
       THEN /\ ret' = [op |-> "save_to_history", val |-> 0]
            /\ threads' = threads
       ELSE /\ ret' = ret
            /\ threads' = [threads EXCEPT ![t] =
                              [pc |-> "save_to_history",
                               summary_data |-> summary_data,
                               fecha_envio |-> clock]]
    /\ UNCHANGED <<clock, storeVars, tableVars, batchVars, statsVars>>

\* execute_many(query, rows_to_insert); return len(rows_to_insert)
SaveToHistoryInsert(t) ==
    /\ threads[t].pc = "save_to_history"
    /\ envios' = insert_rows(envios, hseq,
                             rows_to_insert(threads[t].summary_data,
                                            threads[t].fecha_envio))
    /\ hseq' = hseq + Len(threads[t].summary_data)
    /\ ret' = [op |-> "save_to_history", val |-> Len(threads[t].summary_data)]
    /\ threads' = [threads EXCEPT ![t] = IdleThread]
    /\ UNCHANGED <<clock, conns, txn, tableVars, batchVars, statsVars>>

\* One pass of the loop of update_pdf_paths_in_history: pdf_file is the
\* first file the glob finds for the item, None when it finds none. The
\* tables its UPDATE can leave.
update_pdf_path(t, item, pdf_file) ==
    IF pdf_file = None THEN {t}
    ELSE update_newest(t, invoice_id_of(item), company_of(item), pdf_file)

\* if pdf_files: ... updated += 1, whatever the UPDATE matched.
updated(n, pdf_file) == IF pdf_file # None THEN n + 1 ELSE n

\* update_pdf_paths_in_history with no error from the store, up to its
\* loop: updated = 0, and the return of it when summary_data is empty.
UpdatePdfPaths(summary_data) ==
    /\ backfill.pc = "idle"
    /\ IF summary_data = << >>
       THEN /\ backfill' = NoBackfill
            /\ ret' = [op |-> "update_pdf_paths_in_history", val |-> 0]
       ELSE /\ backfill' = [pc |-> "loop", summary_data |-> summary_data,
                            item |-> 1, updated |-> 0]
            /\ ret' = NoReturn
    /\ UNCHANGED <<clock, envios, hseq, conns, txn, tableVars, threads,
                   df_factura, df_conceptos, arg, statsVars>>

\* The pass of the loop for the next item, then the item after it or the
\* return of updated: every execute commits on its own, and other callers'
\* statements run between two of them.
UpdatePdfPathsNext(pdf_file) ==
    /\ backfill.pc = "loop"
    /\ envios' \in update_pdf_path(envios,
                                   backfill.summary_data[backfill.item],
                                   pdf_file)
    /\ IF backfill.item < Len(backfill.summary_data)
       THEN /\ backfill' = [backfill EXCEPT
                              !.item = @ + 1,
                              !.updated = updated(@, pdf_file)]
            /\ ret' = NoReturn
       ELSE /\ backfill' = NoBackfill
            /\ ret' = [op |-> "update_pdf_paths_in_history",
                       val |-> updated(backfill.updated, pdf_file)]
    /\ UNCHANGED <<clock, hseq, conns, txn, tableVars, threads, df_factura,
                   df_conceptos, arg, statsVars>>

\* A clear_history whose DELETE empties offline_queue as well.
ClearAllTables(t, ok) ==
    /\ threads[t].pc = "idle"
    /\ IF ok
       THEN /\ envios' = delete_envios(envios)
            /\ queue' = delete_all(queue)
            /\ ret' = NoReturn
            /\ threads' = [threads EXCEPT ![t] = [pc |-> "clear_history"]]
       ELSE /\ envios' = envios
            /\ queue' = queue
            /\ ret' = [op |-> "clear_history", val |-> NULL, exc |-> TRUE]
            /\ threads' = threads
    /\ UNCHANGED <<clock, hseq, conns, txn, seq, max_retries, drainVars, calls,
                   removed, last_error, batchVars, statsVars>>

\* MainController.clear_history, which neither catches nor adds anything
\* to database.clear_history, up to the first commit: DELETE FROM envios
\* and conn.commit(), with which the rows are gone for every connection.
\* Nothing has been returned yet. When the connection, the DELETE or the
\* commit raises (ok is false) the table is as it was and the exception
\* leaves clear_history.
ClearHistory(t, ok) ==
    /\ threads[t].pc = "idle"
    /\ IF ok
       THEN /\ envios' = delete_envios(envios)
            /\ ret' = NoReturn
            /\ threads' = [threads EXCEPT ![t] = [pc |-> "clear_history"]]
       ELSE /\ envios' = envios
            /\ ret' = [op |-> "clear_history", val |-> NULL, exc |-> TRUE]
            /\ threads' = threads
    /\ UNCHANGED <<clock, hseq, conns, txn, tableVars, batchVars, statsVars>>

\* cursor.execute("VACUUM"); conn.commit(); the log line; return None.
\* When the VACUUM or the commit raises (ok is false) the exception leaves
\* clear_history with the rows deleted. Rows another caller has stored
\* since the first commit stay.
ClearHistoryVacuum(t, ok) ==
    /\ threads[t].pc = "clear_history"
    /\ ret' = [op |-> "clear_history", val |-> NULL, exc |-> ~ok]
    /\ threads' = [threads EXCEPT ![t] = IdleThread]
    /\ UNCHANGED <<clock, envios, hseq, conns, txn, tableVars, batchVars,
                   statsVars>>

\* HistoryFilter: a text field that is None or "" is << >>, a status that
\* is None is None, a date that is None is NULL; `if filters.x` is false
\* for each of them. A filters argument of None reads like a HistoryFilter
\* with nothing set.
NoFilter ==
    [company |-> << >>, customer |-> << >>, status |-> None,
     date_from |-> NULL, date_to |-> NULL, search_text |-> << >>]

\* The filters callers pass: at most one of company and customer, at most
\* one end of the date range, each with or without a status and a search.
HistoryFilters ==
    {f \in [company : {<< >>, <<"B">>},
            customer : {<< >>, <<"J">>},
            status : {None, OK},
            date_from : {NULL, 1},
            date_to : {NULL, 0},
            search_text : {<< >>, <<"a">>, <<"I", "_", "7">>}] :
        /\ f.company = << >> \/ f.customer = << >>
        /\ f.date_from = NULL \/ f.date_to = NULL}

\* The WHERE clause load_history builds.
where(row, filters) ==
    /\ filters.company # << >> => row.empresa = filters.company
    /\ filters.customer # << >> => row.cliente = filters.customer
    /\ filters.status # None => row.estado = filters.status
    /\ filters.date_from # NULL => row.fecha_envio >= filters.date_from
    /\ filters.date_to # NULL => row.fecha_envio <= filters.date_to
    /\ filters.search_text # << >> =>
          \/ like(row.num_factura, search_pattern(filters.search_text))
          \/ like(row.cliente, search_pattern(filters.search_text))
          \/ like(row.empresa, search_pattern(filters.search_text))

\* HistoryEntry built from one row of the result.
HistoryEntry(t, id) ==
    [id |-> id, invoice_id |-> t[id].num_factura, company |-> t[id].empresa,
     customer |-> t[id].cliente, status |-> t[id].estado,
     send_date |-> t[id].fecha_envio, amount |-> t[id].importe,
     pdf_local_path |-> t[id].pdf_local_path]

\* SELECT ... WHERE ... ORDER BY fecha_envio DESC: any ordering of the
\* selected rows that is descending in fecha_envio.
load_history(t, filters) ==
    LET sel == {i \in DOMAIN t : where(t[i], filters)}
        n == Cardinality(sel)
        sorted == {s \in [1..n -> sel] :
                     /\ \A i, j \in 1..n : i # j => s[i] # s[j]
                     /\ \A i, j \in 1..n :
                          i < j => t[s[i]].fecha_envio >= t[s[j]].fecha_envio}
    IN  {[i \in 1..n |-> HistoryEntry(t, s[i])] : s \in sorted}

LoadHistory(filters) ==
    /\ \E entries \in load_history(envios, filters) :
          ret' = [op |-> "load_history", val |-> entries, filters |-> filters]
    /\ UNCHANGED <<clock, envios, hseq, conns, txn, queueVars>>

\* timedelta(days=1) in seconds, the unit of clock.
SecondsPerDay == 86400

\* SUM(x) over the selected rows: NULL when there is none.
RECURSIVE sql_sum(_, _)
sql_sum(f, S) ==
    IF S = {} THEN NULL
    ELSE LET i == CHOOSE j \in S : TRUE
             rest == sql_sum(f, S \ {i})
         IN  f[i] + (IF rest = NULL THEN 0 ELSE rest)

\* row[i] or 0
or_zero(x) == IF x = NULL THEN 0 ELSE x

\* The aggregate SELECT of get_history_stats and the HistoryStats built
\* from its row. A company of << >> and a period_days of 0 are the values
\* `if company` and `if period_days` skip, None included.
get_history_stats(t, company, period_days, now) ==
    LET sel == {i \in DOMAIN t :
                  /\ company # << >> => t[i].empresa = company
                  /\ period_days # 0 =>
                        t[i].fecha_envio >= now - period_days * SecondsPerDay}
        case_when(estado) == [i \in sel |-> IF t[i].estado = estado THEN 1 ELSE 0]
        importe == [i \in sel |-> t[i].importe]
    IN  [total_invoices |-> Cardinality(sel),
         successful_invoices |-> or_zero(sql_sum(case_when(OK), sel)),
         failed_invoices |-> or_zero(sql_sum(case_when(ERROR), sel)),
         pending_invoices |-> or_zero(sql_sum(case_when(PENDIENTE), sel)),
         total_amount |-> or_zero(sql_sum(importe, sel))]

\* success_rate as the plain quotient.
success_rate_quotient(stats) ==
    IF stats.total_invoices = 0
    THEN [num |-> 0, den |-> 1]
    ELSE [num |-> stats.successful_invoices, den |-> stats.total_invoices]

\* HistoryStats.success_rate: 0.0 for no invoices, else
\* (successful_invoices / total_invoices) * 100, kept as the fraction
\* num/den it is the floating-point value of.
success_rate(stats) ==
    IF stats.total_invoices = 0
    THEN [num |-> 0, den |-> 1]
    ELSE [num |-> stats.successful_invoices * 100, den |-> stats.total_invoices]

\* MainController.get_history_stats up to its fetch_one: the conditions
\* and parameters are built, date_from from datetime.now() when there is a
\* period_days.
GetHistoryStatsFilter(t, company, period_days) ==
    /\ threads[t].pc = "idle"
    /\ threads' = [threads EXCEPT ![t] =
                      [pc |-> "get_history_stats", company |-> company,
                       period_days |-> period_days,
                       now |-> IF period_days # 0 THEN clock ELSE NULL]]
    /\ UNCHANGED <<clock, ret, storeVars, tableVars, batchVars, statsVars>>

\* row = fetch_all(query, params)[0] and the HistoryStats built from it.
GetHistoryStats(t) ==
    /\ threads[t].pc = "get_history_stats"
    /\ LET stats == get_history_stats(envios, threads[t].company,
                                      threads[t].period_days, threads[t].now)
       IN  ret' = [op |-> "get_history_stats", val |-> stats,
                   success_rate |-> success_rate(stats),
                   company |-> threads[t].company,
                   period_days |-> threads[t].period_days,
                   now |-> threads[t].now]
    /\ threads' = [threads EXCEPT ![t] = IdleThread]
    /\ UNCHANGED <<clock, storeVars, tableVars, batchVars, statsVars>>

\* The lists update_pdf_paths_in_history is called with: at most one entry,
\* or the two entries of the one invoice.
BackfillBatches ==
    Batches(1) \cup {<<SentItem, item>> : item \in {i \in SummaryItems :
                        /\ invoice_id_of(i) = invoice_id_of(SentItem)
                        /\ i # SentItem}}

\* The history as its callers use it: invoices recorded by two callers
\* whose save_to_history overlap, PDF paths filled in item by item, the
\* history cleared by the first caller, statement by statement, while the
\* second records and between two items of one
\* update_pdf_paths_in_history, which reads no clock, as clear_history
\* reads none. A DELETE that raises changes no table; it is a step of
\* NextFrame.
NextHistory ==
    \/ backfill.pc = "idle" /\ threads[1].pc # "clear_history" /\ Tick
    \/ \E t \in {1, 2}, summary_data \in Batches(1) :
          SaveToHistoryNow(t, summary_data)
    \/ \E t \in {1, 2} : SaveToHistoryInsert(t)
    \/ \E summary_data \in BackfillBatches : UpdatePdfPaths(summary_data)
    \/ \E pdf_file \in Paths \cup {None} : UpdatePdfPathsNext(pdf_file)
    \/ ClearHistory(1, TRUE)
    \/ \E ok \in BOOLEAN : ClearHistoryVacuum(1, ok)

SpecHistory == InitStore /\ [][NextHistory]_vars

\* The history read back as filtered lists while a caller records
\* invoices.
NextQuery ==
    \/ Tick
    \/ \E summary_data \in Batches(1) : SaveToHistoryNow(1, summary_data)
    \/ SaveToHistoryInsert(1)
    \/ \E filters \in HistoryFilters : LoadHistory(filters)

SpecQuery == InitStore /\ [][NextQuery]_vars

\* The statistics of the history read while callers whose save_to_history
\* overlap record invoices.
NextRate ==
    \/ Tick
    \/ \E t \in Threads, summary_data \in Batches(1) :
          SaveToHistoryNow(t, summary_data)
    \/ \E t \in Threads : SaveToHistoryInsert(t)
    \/ \E company \in {<< >>, <<"B">>}, period_days \in {0, 1} :
          GetHistoryStatsFilter(1, company, period_days)
    \/ GetHistoryStats(1)

SpecRate == InitStore /\ [][NextRate]_vars

\* The queue and the history side by side, within one second, in the one
\* thread of the controller: items are enqueued, drained and cleared, and
\* between these calls one invoice is recorded, read back, given its PDF
\* path and cleared.
NextFrame ==
    \/ Quiet /\ EnqueueNow(1)
    \/ EnqueueInsert(1)
    \/ Quiet /\ ClearCount(1)
    \/ ClearDelete(1)
    \/ Quiet /\ DrainStart
    \/ DrainCallbackRaises
    \/ \E ok \in BOOLEAN : DrainDeliver(ok)
    \/ DrainMarkSent
    \/ DrainFailedFetch
    \/ DrainFailedUpdate
    \/ Quiet /\ SaveToHistoryNow(1, <<SentItem>>)
    \/ SaveToHistoryInsert(1)
    \/ Quiet /\ UpdatePdfPaths(<<SentItem>>)
    \/ UpdatePdfPathsNext("a.pdf")
    \/ \E ok \in BOOLEAN : Quiet /\ ClearHistory(1, ok)
    \/ \E ok \in BOOLEAN : ClearHistoryVacuum(1, ok)
    \/ Quiet /\ LoadHistory(NoFilter)
    \/ Quiet /\ GetHistoryStatsFilter(1, << >>, 0)
    \/ GetHistoryStats(1)

SpecFrame == InitStore /\ [][NextFrame]_vars

\* ------------------------------------------------ validate_invoice_data
required_factura_cols == <<"NumFactura", "empresa_emisora", "cliente_nombre">>
required_conceptos_cols ==
    <<"NumFactura", "descripcion", "cantidad", "precio_unitario">>

Range(s) == {s[i] : i \in 1..Len(s)}

\* The cells of the sheets callers load: invoice numbers as text, as a
\* spreadsheet float and empty; names present, empty or blank (nan).
Cells ==
    [NumFactura : {<<"7">>, <<"7", ".", "0">>, <<"8">>, << >>},
     empresa_emisora : {<<"A">>, << >>, NaN},
     cliente_nombre : {<<"J">>},
     descripcion : {<<"s">>},
     cantidad : {<<"1">>},
     precio_unitario : {<<"9">>}]

\* The DataFrames with the given columns and at most n rows.
Frames(columns, n) ==
    {[columns |-> columns, rows |-> rows] :
        rows \in UNION {[1..k -> {[c \in columns |-> cell[c]] : cell \in Cells}] :
                           k \in 0..n}}

\* The invoices sheets: every required column, or some of NumFactura and
\* cliente_nombre missing.
FacturaFrames ==
    UNION {Frames(Range(required_factura_cols) \ missing, MaxSheetRows) :
              missing \in SUBSET {"NumFactura", "cliente_nombre"}}

\* The line items sheets: every required column, or some of NumFactura and
\* precio_unitario missing; no empty invoice number.
ConceptosFrames ==
    {df \in UNION {Frames(Range(required_conceptos_cols) \ missing, MaxSheetRows) :
                      missing \in SUBSET {"NumFactura", "precio_unitario"}} :
        \A i \in 1..Len(df.rows) :
            "NumFactura" \in df.columns => df.rows[i].NumFactura # << >>}

\* InvoiceValidationError; invoice_id is left out where it is None.
ColumnError(col, message) ==
    [row_index |-> -1, field_name |-> col, error_message |-> <<message, col>>]

\* The errors of the loop over the required columns of one sheet.
column_errors(df, required, message) ==
    LET missing == SelectSeq(required, LAMBDA col : col \notin df.columns)
    IN  [i \in 1..Len(missing) |-> ColumnError(missing[i], message)]

\* row.get(col, default)
row_get(df, row, col, default) ==
    IF col \in df.columns THEN row[col] ELSE default

\* The line items picked by comparing their NumFactura as written.
conceptos_factura_raw(df, invoice_id) ==
    {k \in 1..Len(df.rows) :
        row_get(df, df.rows[k], "NumFactura", << >>) = invoice_id}

\* df_conceptos[df_conceptos["NumFactura"].map(normalize_invoice_id)
\*              == invoice_id]
conceptos_factura(df, invoice_id) ==
    {k \in 1..Len(df.rows) :
        normalize_invoice_id(row_get(df, df.rows[k], "NumFactura", << >>))
            = invoice_id}

\* The errors of one pass of the loop over df_factura.iterrows(); index is
\* the 0-based index of the row.
row_errors(df_f, df_c, index) ==
    LET row == df_f.rows[index + 1]
        invoice_id ==
            normalize_invoice_id(row_get(df_f, row, "NumFactura", << >>))
    IN  (IF not(invoice_id)
         THEN <<[row_index |-> index, field_name |-> "NumFactura",
                 error_message |-> "Número de factura vacío"]>>
         ELSE << >>)
        \o (IF not(row_get(df_f, row, "empresa_emisora", << >>))
            THEN <<[row_index |-> index, field_name |-> "empresa_emisora",
                    error_message |-> "Empresa emisora vacía",
                    invoice_id |-> invoice_id]>>
            ELSE << >>)
        \o (IF not(row_get(df_f, row, "cliente_nombre", << >>))
            THEN <<[row_index |-> index, field_name |-> "cliente_nombre",
                    error_message |-> "Cliente vacío",
                    invoice_id |-> invoice_id]>>
            ELSE << >>)
        \o (IF conceptos_factura(df_c, invoice_id) = {}
            THEN <<[row_index |-> index, field_name |-> "conceptos",
                    error_message |-> "La factura no tiene conceptos asociados",
                    invoice_id |-> invoice_id]>>
            ELSE << >>)

RECURSIVE rows_errors(_, _, _)
rows_errors(df_f, df_c, index) ==
    IF index >= Len(df_f.rows) THEN << >>
    ELSE row_errors(df_f, df_c, index) \o rows_errors(df_f, df_c, index + 1)

\* validate_invoice_data without the return after the column checks.
validate_all(df_f, df_c) ==
    LET errors ==
            column_errors(df_f, required_factura_cols,
                          "Falta la columna requerida: ")
            \o column_errors(df_c, required_conceptos_cols,
                             "Falta la columna requerida en conceptos: ")
            \o rows_errors(df_f, df_c, 0)
    IN  [is_valid |-> Len(errors) = 0, errors |-> errors]

\* InvoiceProcessingService.validate_invoice_data: (is_valid, errors).
validate_invoice_data(df_f, df_c) ==
    LET errors ==
            column_errors(df_f, required_factura_cols,
                          "Falta la columna requerida: ")
            \o column_errors(df_c, required_conceptos_cols,
                             "Falta la columna requerida en conceptos: ")
    IN  IF errors # << >>
        THEN [is_valid |-> FALSE, errors |-> errors]
        ELSE [is_valid |-> Len(rows_errors(df_f, df_c, 0)) = 0,
              errors |-> rows_errors(df_f, df_c, 0)]

\* A batch is loaded and waits to be validated.
InitValidate ==
    /\ Empty
    /\ max_retries = DefaultMaxRetries
    /\ df_factura \in FacturaFrames
    /\ df_conceptos \in ConceptosFrames
    /\ arg = << >>

ValidateInvoiceData ==
    /\ ret' = [op |-> "validate_invoice_data",
               val |-> validate_invoice_data(df_factura, df_conceptos)]
    /\ UNCHANGED <<clock, storeVars, queueVars>>

NextValidate == ValidateInvoiceData

SpecValidate == InitValidate /\ [][NextValidate]_vars

\* ------------------------------------------------- normalize_invoice_id
\* Longest invoice number of the short ones normalized.
MaxLen == 3

\* The characters of the invoice numbers: digits, the point, a space and a
\* letter.
IdChars == {"7", "0", ".", " ", "I"}

\* The first whole numbers a float has to round, as a sheet would hold them.
LongIds ==
    {<<"9", "0", "0", "7", "1", "9", "9", "2", "5", "4", "7", "4", "0", "9",
       "9", "2">>,
     <<"9", "0", "0", "7", "1", "9", "9", "2", "5", "4", "7", "4", "0", "9",
       "9", "3">>,
     <<"9", "0", "0", "7", "1", "9", "9", "2", "5", "4", "7", "4", "0", "9",
       "9", "5", ".", "0">>}

\* The arguments of normalize_invoice_id: short texts, a blank cell and the
\* long numbers.
InvoiceIds ==
    UNION {[1..n -> IdChars] : n \in 0..MaxLen} \cup {NaN} \cup LongIds

InitNormalize ==
    /\ Empty
    /\ max_retries = DefaultMaxRetries
    /\ df_factura = NoFrame
    /\ df_conceptos = NoFrame
    /\ arg \in InvoiceIds

NormalizeInvoiceId ==
    /\ ret' = [op |-> "normalize_invoice_id", val |-> normalize_invoice_id(arg)]
    /\ UNCHANGED <<clock, storeVars, queueVars>>

NextNormalize == NormalizeInvoiceId

SpecNormalize == InitNormalize /\ [][NextNormalize]_vars

\* ---------------------------------------------------------- parse_amount
\* What stands before and after the number of an amount text.
Prefixes == {<< >>, <<"€">>, <<"$">>, <<" ">>, <<"€", " ">>}
Suffixes == {<< >>, <<"€">>, <<" ", "€">>, <<" ">>}

\* The number 1234.56 and the number 1234 written with each thousands
\* separator and each decimal separator.
AmountBodies ==
    {<<"1">> \o t \o <<"2", "3", "4">> \o d :
        t \in {<< >>, <<".">>, <<",">>},
        d \in {<< >>, <<".", "5", "6">>, <<",", "5", "6">>}}

\* Texts that hold no number.
NoAmounts == {<< >>, <<"x">>, <<"1", " ", "2">>, <<"€">>, <<"N", "a", "N">>}

\* The arguments of parse_amount.
Amounts ==
    {PyStr(p \o b \o x) : p \in Prefixes, b \in AmountBodies, x \in Suffixes}
    \cup {PyStr(t) : t \in NoAmounts}
    \cup {PyNone, PyList, PyBool(TRUE), PyBool(FALSE), PyInt(0), PyInt(1234),
          PyDecimal(Decimal(123456, -2)), PyStr(<<"i", "n", "f">>),
          PyStr(<<"€", "I", "n", "f", "i", "n", "i", "t", "y">>),
          PyStr(<<"s", "N", "a", "N">>), PyStr(<<"n", "a", "n", "1">>),
          PyFloat(<<"i", "n", "f">>), PyFloat(<<"n", "a", "n">>),
          PyFloat(<<"0", ".", "5">>)}

InitAmount ==
    /\ Empty
    /\ max_retries = DefaultMaxRetries
    /\ df_factura = NoFrame
    /\ df_conceptos = NoFrame
    /\ arg \in Amounts

ParseAmount ==
    /\ ret' = [op |-> "parse_amount", val |-> parse_amount(arg)]
    /\ UNCHANGED <<clock, storeVars, queueVars>>

NextAmount == ParseAmount

SpecAmount == InitAmount /\ [][NextAmount]_vars

\* ---------------------------------------------- calculate_invoice_totals
\* Largest number of line items of a sheet whose totals are computed.
MaxLines == 3

\* Decimal arithmetic within the precision of the context (28 digits), on
\* values that are not negative. An exception raised by an operand leaves
\* the expression. An operation on a signaling NaN raises InvalidOperation
\* (the context traps it); an operation on a NaN gives the first operand
\* that is one and raises nothing.
raised_by(a, b) == IF "exc" \in DOMAIN a THEN a ELSE b
of_nan(a, b) ==
    IF is_snan(a) \/ is_snan(b) THEN InvalidOperation
    ELSE IF is_nan(a) THEN a ELSE b

add(a, b) ==
    IF "exc" \in DOMAIN a \/ "exc" \in DOMAIN b THEN raised_by(a, b)
    ELSE IF is_nan(a) \/ is_nan(b) THEN of_nan(a, b)
    ELSE IF is_infinite(a) \/ is_infinite(b) THEN DecimalInfinity
    ELSE LET e == Min(a.exp, b.exp)
         IN  Decimal(a.coef * 10^(a.exp - e) + b.coef * 10^(b.exp - e), e)

\* Infinity times zero raises InvalidOperation.
mul(a, b) ==
    IF "exc" \in DOMAIN a \/ "exc" \in DOMAIN b THEN raised_by(a, b)
    ELSE IF is_nan(a) \/ is_nan(b) THEN of_nan(a, b)
    ELSE IF is_infinite(a) \/ is_infinite(b)
    THEN IF (is_finite(a) /\ a.coef = 0) \/ (is_finite(b) /\ b.coef = 0)
         THEN InvalidOperation
         ELSE DecimalInfinity
    ELSE Decimal(a.coef * b.coef, a.exp + b.exp)

\* a / Decimal("100")
div100(a) ==
    IF "exc" \in DOMAIN a THEN a
    ELSE IF is_snan(a) THEN InvalidOperation
    ELSE IF is_nan(a) \/ is_infinite(a) THEN a
    ELSE reduce(Decimal(a.coef, a.exp - 2), a.exp)

\* The float nan of a blank cell, the text of a cell that holds the
\* percentage with its sign, and a text cell Decimal() reads as Infinity.
BlankCell == PyFloat(<<"n", "a", "n">>)
PercentCell == PyStr(<<"2", "1", "%">>)
InfCell == PyStr(<<"i", "n", "f">>)

\* The line items sample_conceptos_dataframe holds, one whose invoice
\* number is a float and whose price has a fraction, one whose retention
\* cell is blank, one whose tax cell is a text Decimal() rejects and one
\* whose tax cell is a text it reads as Infinity.
Lines ==
    LET line(id, n, price, iva, retencion) ==
            [NumFactura |-> id, descripcion |-> <<"s">>,
             cantidad |-> PyInt(n), precio_unitario |-> PyFloat(price),
             iva_porcentaje |-> iva,
             retencion_porcentaje |-> retencion]
    IN  {line(<<"2", "5", "0", "0", "1">>, 1, <<"1", "0", "0", ".", "0">>,
              PyInt(21), PyInt(0)),
         line(<<"2", "5", "0", "0", "1">>, 2, <<"2", "0", "0", ".", "0">>,
              PyInt(21), PyInt(0)),
         line(<<"2", "5", "0", "0", "2">>, 1, <<"5", "0", "0", ".", "0">>,
              PyInt(21), PyInt(15)),
         line(<<"2", "5", "0", "0", "1", ".", "0">>, 1, <<"0", ".", "5">>,
              PyInt(10), PyInt(0)),
         line(<<"2", "5", "0", "0", "1">>, 1, <<"1", "0", "0", ".", "0">>,
              PyInt(21), BlankCell),
         line(<<"2", "5", "0", "0", "2">>, 1, <<"5", "0", "0", ".", "0">>,
              PercentCell, PyInt(15)),
         line(<<"2", "5", "0", "0", "2">>, 1, <<"5", "0", "0", ".", "0">>,
              InfCell, PyInt(15))}

\* The line items sheets: every required column, with or without the
\* percentage columns.
LineFrames ==
    {[columns |-> columns,
      rows |-> [i \in 1..Len(rows) |-> [c \in columns |-> rows[i][c]]]] :
        columns \in {Range(required_conceptos_cols) \cup optional :
                        optional \in SUBSET {"iva_porcentaje",
                                             "retencion_porcentaje"}},
        rows \in UNION {[1..n -> Lines] : n \in 0..MaxLines}}

\* The invoice numbers totals are asked for.
TotalIds ==
    {<<"2", "5", "0", "0", "1">>, <<"2", "5", "0", "0", "2">>,
     <<"2", "5", "0", "0", "3">>, <<"2", "5", "0", "0", "1", ".", "0">>}

\* df_conceptos_norm[df_conceptos_norm["__id_norm__"] == invoice_id]
lines_of(df, invoice_id) ==
    SelectSeq(df.rows,
              LAMBDA row : normalize_invoice_id(row.NumFactura) = invoice_id)

\* The try body of one pass of the loop up to the sums: the four cells as
\* Decimal(str(concepto.get(...))), then base, iva and ret of the line
\* item; InvalidOperation when a Decimal() rejects its cell or an
\* operation raises.
line_totals(df, concepto) ==
    LET cantidad == decimal_of(str_number(
                        row_get(df, concepto, "cantidad", PyInt(0))))
        precio == decimal_of(str_number(
                      row_get(df, concepto, "precio_unitario", PyInt(0))))
        iva_pct == decimal_of(str_number(
                       row_get(df, concepto, "iva_porcentaje", PyInt(0))))
        ret_pct == decimal_of(str_number(
                       row_get(df, concepto, "retencion_porcentaje", PyInt(0))))
        base == mul(cantidad, precio)
        iva == mul(base, div100(iva_pct))
        ret_amount == mul(base, div100(ret_pct))
    IN  IF InvalidOperation \in {cantidad, precio, iva_pct, ret_pct,
                                 base, iva, ret_amount}
        THEN InvalidOperation
        ELSE [base |-> base, iva |-> iva, ret |-> ret_amount]

\* base_sum, iva_sum, ret_sum after the loop over the line items: a pass
\* whose try body raised before the sums leaves the three as they were
\* (except Exception: logger.warning), every other pass adds its three
\* amounts one after another, and a += that raises leaves its sum and the
\* sums after it as they were.
RECURSIVE sums(_, _)
sums(df, conceptos) ==
    IF conceptos = << >>
    THEN <<Decimal(0, -1), Decimal(0, -1), Decimal(0, -1)>>
    ELSE LET n == Len(conceptos)
             before == sums(df, SubSeq(conceptos, 1, n - 1))
             line == line_totals(df, conceptos[n])
             base_sum == add(before[1], line.base)
             iva_sum == add(before[2], line.iva)
             ret_sum == add(before[3], line.ret)
         IN  IF "exc" \in DOMAIN line \/ "exc" \in DOMAIN base_sum
             THEN before
             ELSE IF "exc" \in DOMAIN iva_sum
             THEN <<base_sum, before[2], before[3]>>
             ELSE IF "exc" \in DOMAIN ret_sum
             THEN <<base_sum, iva_sum, before[3]>>
             ELSE <<base_sum, iva_sum, ret_sum>>

\* InvoiceProcessingService.calculate_invoice_totals
calculate_invoice_totals(df, invoice_id) == sums(df, lines_of(df, invoice_id))

InitTotals ==
    /\ Empty
    /\ max_retries = DefaultMaxRetries
    /\ df_factura = NoFrame
    /\ df_conceptos \in LineFrames
    /\ arg \in TotalIds

CalculateInvoiceTotals ==
    /\ ret' = [op |-> "calculate_invoice_totals",
               val |-> calculate_invoice_totals(df_conceptos, arg)]
    /\ UNCHANGED <<clock, storeVars, queueVars>>

NextTotals == CalculateInvoiceTotals

SpecTotals == InitTotals /\ [][NextTotals]_vars

\* ---------------------------------------------------------- StatsService
EXITO == "ÉXITO"
SUCCESS == "SUCCESS"

\* StatsService(): ttl_seconds
DefaultTtl == 2

\* Latest time of the clock while the cache is watched.
MaxAge == 3

\* strftime('%Y-%m', t): the clock starts with a month, and the times of the
\* model lie within its first 28 days.
month(t) == t \div (28 * SecondsPerDay)

\* estado LIKE 'ÉXITO%' OR estado IN ('OK', 'SUCCESS'), on the estados of
\* the model.
month_success(estado) == estado \in {EXITO, OK, SUCCESS}

DashboardStats(total_success, month_count, month_total) ==
    [total_success |-> total_success, month_count |-> month_count,
     month_total |-> month_total]

\* SELECT COUNT(*) FROM envios WHERE estado = 'ÉXITO'
total_success(t) == Cardinality({i \in DOMAIN t : t[i].estado = EXITO})

\* SELECT COUNT(*), COALESCE(SUM(importe), 0.0) ... of the month of now
month_stats(t, now) ==
    LET this_month ==
            {i \in DOMAIN t : /\ month_success(t[i].estado)
                              /\ month(t[i].fecha_envio) = month(now)}
    IN  [month_count |-> Cardinality(this_month),
         month_total |-> or_zero(sql_sum([i \in DOMAIN t |-> t[i].importe],
                                         this_month))]

\* An age up to the TTL counted as fresh.
fresh_inclusive(now) == now - last_updated <= DefaultTtl

\* datetime.now() - self._last_updated < self._ttl
fresh(now) == now - last_updated < DefaultTtl

\* The entries of summary_data saved while the cache is watched.
StatsItems ==
    {SentItem,
     [num_factura |-> <<"8">>, empresa |-> <<"B">>, cliente |-> <<"K">>,
      estado |-> EXITO, importe |-> 50]}

TickStats ==
    /\ clock < MaxAge
    /\ clock' = clock + 1
    /\ UNCHANGED <<ret, storeVars, queueVars>>

\* StatsService.invalidate, its first assignment: self._cache = None
InvalidateCache(t) ==
    /\ threads[t].pc = "idle"
    /\ cache' = NoStats
    /\ threads' = [threads EXCEPT ![t] = [pc |-> "invalidate"]]
    /\ UNCHANGED <<clock, ret, last_updated, dashboard, storeVars, tableVars,
                   batchVars>>

\* Its second assignment: self._last_updated = None
InvalidateUpdated(t) ==
    /\ threads[t].pc = "invalidate"
    /\ last_updated' = NULL
    /\ ret' = [op |-> "invalidate", val |-> NULL]
    /\ threads' = [threads EXCEPT ![t] = IdleThread]
    /\ UNCHANGED <<clock, cache, dashboard, storeVars, tableVars, batchVars>>

\* StatsService.get_dashboard_stats, attribute by attribute: the object has
\* no lock, so an invalidate of another caller can run between two reads.
\* The start of its condition: not force and self._cache is not None
GetDashboardStats(force) ==
    /\ dashboard.pc = "idle"
    /\ dashboard' = [pc |-> IF ~force /\ cache # NoStats
                            THEN "updated" ELSE "total",
                     force |-> force]
    /\ UNCHANGED <<clock, ret, cache, last_updated, storeVars, tableVars,
                   threads, batchVars>>

\* and self._last_updated is not None
DashboardUpdated ==
    /\ dashboard.pc = "updated"
    /\ dashboard' = [pc |-> IF last_updated # NULL THEN "age" ELSE "total",
                     force |-> dashboard.force, since |-> clock]
    /\ UNCHANGED <<clock, ret, cache, last_updated, storeVars, tableVars,
                   threads, batchVars>>

\* A TypeError leaves get_dashboard_stats: the condition stands before the
\* try.
DashboardRaises ==
    /\ ret' = [op |-> "get_dashboard_stats", val |-> NULL,
               force |-> dashboard.force, branch |-> "raise"]
    /\ dashboard' = NoDashboard

\* and datetime.now() - self._last_updated < self._ttl: the clock, read
\* since the test before, then self._last_updated read again; the
\* subtraction raises when it is None by now.
DashboardAge ==
    /\ dashboard.pc = "age"
    /\ \E now \in dashboard.since..clock :
          IF last_updated = NULL
          THEN DashboardRaises
          ELSE /\ ret' = ret
               /\ dashboard' = [pc |-> IF fresh(now) THEN "serve" ELSE "total",
                                force |-> dashboard.force, now |-> now]
    /\ UNCHANGED <<clock, cache, last_updated, storeVars, tableVars, threads,
                   batchVars>>

\* return self._cache: the attribute is read again, None when an invalidate
\* has come since the condition read it.
DashboardServe ==
    /\ dashboard.pc = "serve"
    /\ ret' = [op |-> "get_dashboard_stats", val |-> cache,
               force |-> dashboard.force, now |-> dashboard.now,
               branch |-> "cache"]
    /\ dashboard' = NoDashboard
    /\ UNCHANGED <<clock, cache, last_updated, storeVars, tableVars, threads,
                   batchVars>>

\* return DashboardStats(0, 0, 0.0) of the except clause
DashboardExcept ==
    /\ ret' = [op |-> "get_dashboard_stats", val |-> DashboardStats(0, 0, 0),
               force |-> dashboard.force, branch |-> "except"]
    /\ dashboard' = NoDashboard

\* The connection and the first SELECT, which raise when ok is false.
DashboardTotal(ok) ==
    /\ dashboard.pc = "total"
    /\ IF ~ok
       THEN DashboardExcept
       ELSE /\ ret' = ret
            /\ dashboard' = [pc |-> "month", force |-> dashboard.force,
                             total_success |-> total_success(envios),
                             since |-> clock]
    /\ UNCHANGED <<clock, cache, last_updated, storeVars, tableVars, threads,
                   batchVars>>

\* month_key = datetime.now().strftime("%Y-%m"), read since the first
\* SELECT, and the second SELECT, which raises when ok is false; then
\* stats = DashboardStats(...)
DashboardMonth(ok) ==
    /\ dashboard.pc = "month"
    /\ IF ~ok
       THEN DashboardExcept
       ELSE /\ ret' = ret
            /\ \E now \in dashboard.since..clock :
                  dashboard' = [pc |-> "store", force |-> dashboard.force,
                                stats |-> DashboardStats(
                                    dashboard.total_success,
                                    month_stats(envios, now).month_count,
                                    month_stats(envios, now).month_total)]
    /\ UNCHANGED <<clock, cache, last_updated, storeVars, tableVars, threads,
                   batchVars>>

\* self._cache = stats
DashboardStore ==
    /\ dashboard.pc = "store"
    /\ cache' = dashboard.stats
    /\ dashboard' = [pc |-> "stamp", force |-> dashboard.force,
                     stats |-> dashboard.stats, since |-> clock]
    /\ UNCHANGED <<clock, ret, last_updated, storeVars, tableVars, threads,
                   batchVars>>

\* self._last_updated = datetime.now(), the clock read since the assignment
\* before; return stats
DashboardStamp ==
    /\ dashboard.pc = "stamp"
    /\ \E now \in dashboard.since..clock :
          /\ last_updated' = now
          /\ ret' = [op |-> "get_dashboard_stats", val |-> dashboard.stats,
                     force |-> dashboard.force, now |-> now,
                     branch |-> "stats"]
    /\ dashboard' = NoDashboard
    /\ UNCHANGED <<clock, cache, storeVars, tableVars, threads, batchVars>>

\* The dashboard of the controller's one thread: its calls of invalidate
\* and get_dashboard_stats run one after another, each to its end, while
\* the clock moves and invoices are recorded.
NextStats ==
    \/ TickStats
    \/ \E item \in StatsItems : SaveToHistoryNow(2, <<item>>)
    \/ SaveToHistoryInsert(2)
    \/ dashboard.pc = "idle" /\ InvalidateCache(1)
    \/ InvalidateUpdated(1)
    \/ \E force \in BOOLEAN :
          threads[1].pc = "idle" /\ GetDashboardStats(force)
    \/ DashboardUpdated
    \/ DashboardAge
    \/ DashboardServe
    \/ \E ok \in BOOLEAN : DashboardTotal(ok)
    \/ \E ok \in BOOLEAN : DashboardMonth(ok)
    \/ DashboardStore
    \/ DashboardStamp

SpecStats == InitStore /\ [][NextStats]_vars

\* The StatsService shared by two threads: the invalidate of one runs
\* inside the get_dashboard_stats of the other.
NextShared ==
    \/ TickStats
    \/ SaveToHistoryNow(2, <<SentItem>>)
    \/ SaveToHistoryInsert(2)
    \/ InvalidateCache(1)
    \/ InvalidateUpdated(1)
    \/ \E force \in BOOLEAN : GetDashboardStats(force)
    \/ DashboardUpdated
    \/ DashboardAge
    \/ DashboardServe
    \/ \E ok \in BOOLEAN : DashboardTotal(ok)
    \/ \E ok \in BOOLEAN : DashboardMonth(ok)
    \/ DashboardStore
    \/ DashboardStamp

SpecShared == InitStore /\ [][NextShared]_vars

\* ------------------------------------------------------------ properties
\* C1: on an item that only mark_as_failed calls have touched since it was
\* enqueued, after k such calls with max_retries = m the attempt counter is
\* k and the item is PENDIENTE while k < m and FALLIDO once k >= m.
C1_FailedCallsCounted ==
    \A id \in DOMAIN queue :
        calls[id].sent = 0 =>
            /\ queue[id].intentos = calls[id].failed
            /\ calls[id].failed < max_retries => queue[id].estado = PENDIENTE
            /\ calls[id].failed >= max_retries => queue[id].estado = FALLIDO

\* Three mark_as_failed calls with max_retries = 3 have left an item FALLIDO.
C1_Witness ==
    \E id \in DOMAIN queue :
        /\ max_retries = 3
        /\ calls[id] = [failed |-> 3, sent |-> 0]
        /\ queue[id].estado = FALLIDO

\* C2: once an item is ENVIADO or FALLIDO, no step changes its estado, and
\* a FALLIDO item is never removed.
C2_TerminalIsFinal ==
    [][\A id \in DOMAIN queue :
          queue[id].estado \in {ENVIADO, FALLIDO} =>
              IF id \in DOMAIN queue'
              THEN queue'[id].estado = queue[id].estado
              ELSE queue[id].estado = ENVIADO]_vars

\* C3: mark_as_sent on a PENDIENTE item sets estado to ENVIADO and
\* ultimo_intento to the current time, and changes neither that item's
\* intentos or fecha_creacion nor any other row.
C3_MarkSentFrame ==
    [][\A id \in DOMAIN queue :
          (calls'[id].sent = calls[id].sent + 1 /\ queue[id].estado = PENDIENTE) =>
              /\ DOMAIN queue' = DOMAIN queue
              /\ queue'[id] = [queue[id] EXCEPT !.estado = ENVIADO,
                                                !.ultimo_intento = clock]
              /\ \A o \in DOMAIN queue \ {id} : queue'[o] = queue[o]]_vars

\* An item marked sent after two failed attempts, at a later second than
\* its creation, next to another item.
C3_Witness ==
    \E id \in DOMAIN queue :
        /\ calls[id] = [failed |-> 2, sent |-> 1]
        /\ queue[id].estado = ENVIADO
        /\ queue[id].intentos = 2
        /\ queue[id].ultimo_intento > queue[id].fecha_creacion
        /\ DOMAIN queue # {id}

\* C4: add_to_queue adds exactly one row, PENDIENTE with intentos 0 and no
\* ultimo_intento, returns an id no row ever had, removed rows included, and
\* leaves every existing row as it was.
C4_EnqueueFresh ==
    [][(ret'.op = "add_to_queue" /\ queue' # queue) =>
          /\ ret'.val \notin DOMAIN queue
          /\ removed[ret'.val] = "no"
          /\ ret'.val > seq
          /\ DOMAIN queue' = DOMAIN queue \cup {ret'.val}
          /\ queue'[ret'.val] = [estado |-> PENDIENTE, intentos |-> 0,
                                 fecha_creacion |-> clock,
                                 ultimo_intento |-> NULL]
          /\ \A o \in DOMAIN queue : queue'[o] = queue[o]]_vars

\* An item enqueued after the row with the largest id was removed.
C4_Witness ==
    /\ ret.op = "add_to_queue"
    /\ ret.val \in DOMAIN queue
    /\ ret.val > 1
    /\ removed[ret.val - 1] = ENVIADO

\* C7: clear_sent_items removes exactly the ENVIADO rows, returns how many
\* it removed, and leaves every other row present and unchanged.
C7_ClearSent ==
    [][(ret'.op = "clear_sent_items" /\ (ret' # ret \/ queue' # queue)) =>
          /\ DOMAIN queue' = {i \in DOMAIN queue : queue[i].estado # ENVIADO}
          /\ \A i \in DOMAIN queue' : queue'[i] = queue[i]
          /\ ret'.val = Cardinality(DOMAIN queue \ DOMAIN queue')]_vars

\* clear_sent_items has removed a sent row and returned 1 while a FALLIDO
\* row stays.
C7_Witness ==
    /\ ret.op = "clear_sent_items"
    /\ ret.val = 1
    /\ \E i \in Ids : removed[i] = ENVIADO
    /\ \E i \in DOMAIN queue : queue[i].estado = FALLIDO

\* What a read of the pending items must satisfy: at most limit items, each
\* a PENDIENTE row of q, no row twice, ascending in creation time, and no
\* PENDIENTE row of q created earlier than an item read is left out or
\* comes after it.
FifoRead(q, items, limit) ==
    /\ Len(items) <= limit
    /\ \A i \in 1..Len(items) :
          /\ items[i].id \in PendingIds(q)
          /\ items[i].created_at = q[items[i].id].fecha_creacion
    /\ \A i, j \in 1..Len(items) :
          i < j => /\ items[i].id # items[j].id
                   /\ items[i].created_at <= items[j].created_at
    /\ \A a \in PendingIds(q), j \in 1..Len(items) :
          q[a].fecha_creacion < items[j].created_at =>
              \E i \in 1..(j - 1) : items[i].id = a

Running == {"deliver", "mark_as_sent", "mark_as_failed", "update_failed"}
Crashed == {"crashed", "crashed_delivered"}

\* C5: a read of the pending items, by get_pending_items(limit) or at the
\* start of a drain, returns at most limit items, all PENDIENTE when read,
\* in ascending creation time with no earlier-created PENDIENTE item left
\* out; the drain then marks the items one by one in the order read.
C5_FifoDrain ==
    /\ [][(ret'.op = "get_pending_items" /\ ret' # ret) =>
            FifoRead(queue, ret'.val, ret'.limit)]_vars
    /\ [][(pc \notin Running /\ pc' = "deliver") =>
            /\ idx' = 1
            /\ FifoRead(queue, pending_items', DefaultLimit)]_vars
    /\ [][\A id \in Ids :
            calls'[id] # calls[id] =>
                /\ pc \in {"mark_as_sent", "update_failed"}
                /\ id = pending_items[idx].id
                /\ pc' = "idle" \/ idx' = idx + 1]_vars
    /\ [][(pc \in Running /\ pc' \in Running) =>
            /\ idx' \in {idx, idx + 1}
            /\ pending_items' = pending_items]_vars

\* A drain that read two items created at different seconds has marked the
\* older one and is about to attempt the newer one, whose add_to_queue
\* read the clock later and inserted sooner.
C5_Witness ==
    /\ pc = "deliver"
    /\ idx = 2
    /\ Len(pending_items) = 2
    /\ pending_items[1].created_at < pending_items[2].created_at
    /\ pending_items[1].id > pending_items[2].id
    /\ calls[pending_items[1].id].failed + calls[pending_items[1].id].sent = 1
    /\ calls[pending_items[2].id] = NoCalls

\* C6: in a drain, an attempt that raises gets mark_as_failed and counts as
\* failed, an attempt that succeeds gets mark_as_sent and counts as
\* success, either way the loop goes on with the next item, and the drain
\* returns only after the last item read, with processed = success + failed
\* = the number of items read.
C6_DrainNeverAborts ==
    /\ [](pc \in Running =>
            /\ processed = success + failed
            /\ processed = idx - 1
            /\ idx <= Len(pending_items))
    /\ [][(pc = "mark_as_failed" /\ pc' # pc /\ pc' \notin Crashed) =>
            pc' = "update_failed"]_vars
    /\ [][(pc = "update_failed" /\ pc' # pc /\ pc' \notin Crashed) =>
            /\ calls'[pending_items[idx].id].failed
                 = calls[pending_items[idx].id].failed + 1
            /\ queue'[pending_items[idx].id].intentos
                 = queue[pending_items[idx].id].intentos + 1
            /\ failed' = failed + 1
            /\ success' = success
            /\ processed' = processed + 1
            /\ pc' = IF idx < Len(pending_items) THEN "deliver" ELSE "idle"]_vars
    /\ [][(pc = "mark_as_sent" /\ pc' # pc /\ pc' \notin Crashed) =>
            /\ calls'[pending_items[idx].id].sent
                 = calls[pending_items[idx].id].sent + 1
            /\ queue'[pending_items[idx].id].estado = ENVIADO
            /\ success' = success + 1
            /\ failed' = failed
            /\ processed' = processed + 1
            /\ pc' = IF idx < Len(pending_items) THEN "deliver" ELSE "idle"]_vars
    /\ [][(pc \in Running /\ pc' = "idle") =>
            /\ idx = Len(pending_items)
            /\ ret'.op = "process_offline_queue"
            /\ ret'.val.processed = Len(pending_items)
            /\ ret'.val.processed = ret'.val.success + ret'.val.failed]_vars

\* C8: every item ever enqueued is in the table or was removed while
\* ENVIADO; no step removes a PENDIENTE or FALLIDO row; a crash between a
\* successful delivery and its mark_as_sent leaves the table as it was, the
\* item PENDIENTE, and the next drain reads every PENDIENTE row again.
C8_NoLoss ==
    /\ [](\A id \in 1..seq : id \in DOMAIN queue \/ removed[id] = ENVIADO)
    /\ [][\A id \in DOMAIN queue :
            queue[id].estado # ENVIADO => id \in DOMAIN queue']_vars
    /\ [][(pc = "mark_as_sent" /\ pc' = "crashed_delivered") =>
            /\ queue' = queue
            /\ queue'[pending_items[idx].id].estado = PENDIENTE]_vars
    /\ [][(pc \in Crashed /\ pc' = "deliver") =>
            \A id \in PendingIds(queue) :
                \E i \in 1..Len(pending_items') : pending_items'[i].id = id]_vars

\* The process died after a delivery that succeeded and before its
\* mark_as_sent; the item is still PENDIENTE, and an earlier item was sent
\* and cleared.
C8_Witness ==
    /\ pc = "crashed_delivered"
    /\ \E id \in Ids : removed[id] = ENVIADO
    /\ \E id \in DOMAIN queue :
          queue[id].estado = PENDIENTE /\ calls[id] = NoCalls

\* C9: while drains keep being run, every item is time and again not
\* PENDIENTE: whenever it is PENDIENTE it comes to be ENVIADO or FALLIDO
\* (or sent and cleared). So are, all at one time, the items of a backlog,
\* those behind more failing items than one drain reads included. No item
\* gets more than max_retries attempts, a PENDIENTE item has had fewer than
\* max_retries failures, and a FALLIDO item is never attempted or changed
\* again.
C9_BoundedRetry ==
    /\ \A id \in Ids :
          []<>(id \notin DOMAIN queue \/ queue[id].estado \in {ENVIADO, FALLIDO})
    /\ []<>(seq = Backlog =>
              \A id \in DOMAIN queue : queue[id].estado \in {ENVIADO, FALLIDO})
    /\ [](\A id \in DOMAIN queue :
            /\ calls[id].failed + calls[id].sent <= DefaultMaxRetries
            /\ queue[id].estado = PENDIENTE => calls[id].failed < DefaultMaxRetries)
    /\ [][\A id \in DOMAIN queue :
            queue[id].estado = FALLIDO =>
                /\ id \in DOMAIN queue'
                /\ queue'[id] = queue[id]
                /\ calls'[id] = calls[id]]_vars

\* The DefaultLimit oldest items of the backlog filled three drains, failed
\* in each and are FALLIDO; an item behind them, which none of the three
\* drains read, was read by a later drain and sent at its first attempt.
C9_Witness ==
    /\ DOMAIN queue = 1..Backlog
    /\ \A id \in 1..DefaultLimit :
          /\ queue[id].estado = FALLIDO
          /\ calls[id] = [failed |-> DefaultMaxRetries, sent |-> 0]
    /\ queue[DefaultLimit + 1].fecha_creacion > queue[DefaultLimit].fecha_creacion
    /\ queue[DefaultLimit + 1].estado = ENVIADO
    /\ calls[DefaultLimit + 1] = [failed |-> 0, sent |-> 1]

\* C10: when no mark_as_failed call on an item is under way, its attempt
\* counter equals the number of mark_as_failed calls completed on it and
\* its estado is the one that many calls in a row produce.
C10_MarkFailedAtomic ==
    \A id \in DOMAIN queue :
        InFlight(id) = {} =>
            /\ queue[id].intentos = calls[id].failed
            /\ queue[id].estado =
                 IF calls[id].failed >= max_retries THEN FALLIDO ELSE PENDIENTE

\* C11: every reprocessing attempt of the drain on an item, whether it ends
\* in mark_as_sent or in mark_as_failed, adds exactly one to the item's
\* intentos and sets its ultimo_intento to the time read in the call, so
\* intentos always equals the number of attempts made on the item.
C11_AttemptsCounted ==
    /\ [][\A id \in DOMAIN queue :
            calls'[id].failed + calls'[id].sent
                = calls[id].failed + calls[id].sent + 1 =>
                /\ queue'[id].intentos = queue[id].intentos + 1
                /\ queue'[id].ultimo_intento \in drain_now..clock]_vars
    /\ [](\A id \in DOMAIN queue :
            queue[id].intentos = calls[id].failed + calls[id].sent)

\* C12: after mark_as_failed(id, error_msg, max_retries) the item carries
\* the error: every item read back from the queue has as error_message the
\* error_msg of the most recent mark_as_failed on it.
C12_ErrorRecorded ==
    ret.op = "get_pending_items" =>
        \A i \in 1..Len(ret.val) :
            last_error[ret.val[i].id] # None =>
                ret.val[i].error_message = last_error[ret.val[i].id]

\* C13: every database function (execute, execute_many, fetch_all,
\* fetch_one, clear_history, init_database) closes the connection it opened
\* on every way out, by return or by exception: when no function is under
\* way no connection is open, and a function never holds more than one.
C13_ConnectionReleased ==
    /\ [](txn.pc = "idle" => conns = 0)
    /\ [](txn.pc = "connect" => conns = 0)
    /\ [](txn.pc \in {"body", "finally"} => conns = 1)
    /\ [][(txn.pc # "idle" /\ txn'.pc = "idle") =>
            /\ conns' = 0
            /\ ret'.op = txn.caller
            /\ ret'.exc = (txn.exc \/ txn.pc = "connect")]_vars

\* clear_history has raised at its VACUUM, after the DELETE and the commit,
\* and its connection is closed.
C13_Witness ==
    /\ txn.pc = "idle"
    /\ ret.op = "clear_history"
    /\ ret.exc
    /\ ret.done = 2
    /\ conns = 0

\* What an entry gives under a key, or under the other name of the key,
\* or the default.
Given(item, key, other, default) ==
    IF key \in DOMAIN item THEN item[key]
    ELSE IF other \in DOMAIN item THEN item[other]
    ELSE default

\* C14: save_to_history stores one row per entry of summary_data, all with
\* the one time read at the call, in one transaction: when it returns, the
\* table is the table of before plus exactly those rows and the value
\* returned is their number; when the write raises, the table is the table
\* of before; an empty summary_data stores nothing and returns 0.
C14_RecordAllOrNothing ==
    [][(ret' # ret /\ ret'.op = "save_to_history") =>
          LET d == ret'.args
              n == Len(d)
              before == IF txn.pc = "idle" THEN envios ELSE txn.before
          IN  /\ \A i \in DOMAIN before :
                    i \in DOMAIN envios' /\ envios'[i] = before[i]
              /\ ret'.exc => envios' = before
              /\ n = 0 => ~ret'.exc /\ ret'.val = 0 /\ envios' = before
              /\ ~ret'.exc =>
                    /\ ret'.val = n
                    /\ ret'.val = Cardinality(DOMAIN envios' \ DOMAIN before)
                    /\ DOMAIN envios' \ DOMAIN before = (hseq' - n + 1)..hseq'
                    /\ \A i \in 1..n :
                          LET row == envios'[hseq' - n + i]
                          IN  /\ n > 0 => row.fecha_envio = txn.now
                              /\ row.num_factura
                                   = normalize_invoice_id(
                                         Given(d[i], "num_factura", "NumFactura",
                                               << >>))
                              /\ row.empresa
                                   = Given(d[i], "empresa", "empresa_emisora", << >>)
                              /\ row.cliente
                                   = Given(d[i], "cliente", "cliente_nombre", << >>)
                              /\ row.importe = Given(d[i], "importe", "total", 0)
                              /\ row.pdf_local_path = None
                              /\ row.estado
                                   = Given(d[i], "estado", "status",
                                           DESCONOCIDO)]_vars

\* With one row stored, a save of one more entry raised at its commit,
\* after the INSERT.
C14_Witness ==
    /\ ret.op = "save_to_history"
    /\ ret.exc
    /\ ret.done = 1
    /\ Len(ret.args) = 1
    /\ Cardinality(DOMAIN envios) = 1

\* C16: the backfill of one item's PDF path sets pdf_local_path of exactly
\* one row, one with the newest fecha_envio among the rows whose
\* num_factura and empresa both match, and leaves every other row, older
\* rows of the same invoice and company included, as it was; when no row
\* matches, or no file was found, the table does not change; the count
\* returned rises by one for every item with a file.
C16_BackfillNewest ==
    [][(backfill.pc = "loop" /\ backfill' # backfill) =>
          LET item == backfill.summary_data[backfill.item]
              id == invoice_id_of(item)
              co == Given(item, "empresa", "empresa_emisora", << >>)
              m == {i \in DOMAIN envios :
                      envios[i].num_factura = id /\ envios[i].empresa = co}
              count == IF backfill'.pc = "loop" THEN backfill'.updated
                       ELSE ret'.val
          IN  /\ DOMAIN envios' = DOMAIN envios
              /\ count \in {backfill.updated, backfill.updated + 1}
              /\ (m = {} \/ count = backfill.updated) => envios' = envios
              /\ (m # {} /\ count = backfill.updated + 1) =>
                    \E r \in m, path \in Paths :
                       /\ \A j \in m :
                             envios[j].fecha_envio <= envios[r].fecha_envio
                       /\ envios'[r] = [envios[r] EXCEPT
                                          !.pdf_local_path = path]
                       /\ \A o \in DOMAIN envios \ {r} :
                             envios'[o] = envios[o]]_vars

\* Two rows of the same invoice and company were stored by calls that
\* overlapped, the row inserted first with the time read a second later;
\* the backfill gave that newer row its path and left the older one, which
\* has the larger id, without.
C16_Witness ==
    /\ ret.op = "update_pdf_paths_in_history"
    /\ ret.val = 1
    /\ DOMAIN envios = {1, 2}
    /\ envios[1].num_factura = envios[2].num_factura
    /\ envios[1].empresa = envios[2].empresa
    /\ envios[1].fecha_envio > envios[2].fecha_envio
    /\ envios[2].pdf_local_path = None
    /\ envios[1].pdf_local_path \in Paths

\* sub occurs in text as a run of characters, ASCII case aside.
Contains(text, sub) ==
    \E k \in 0..(Len(text) - Len(sub)) :
        \A i \in 1..Len(sub) : lower(text[k + i]) = lower(sub[i])

\* The predicates of the filter that are set, all at once.
Satisfies(row, f) ==
    /\ f.company # << >> => row.empresa = f.company
    /\ f.customer # << >> => row.cliente = f.customer
    /\ f.status # None => row.estado = f.status
    /\ f.date_from # NULL => row.fecha_envio >= f.date_from
    /\ f.date_to # NULL => row.fecha_envio <= f.date_to
    /\ f.search_text # << >> =>
          \/ Contains(row.num_factura, f.search_text)
          \/ Contains(row.cliente, f.search_text)
          \/ Contains(row.empresa, f.search_text)

\* C17: load_history(filters) returns exactly the rows of envios that
\* satisfy every set predicate of the filter (the search text being
\* contained in num_factura, cliente or empresa), each once and as stored,
\* newest fecha_envio first; with no predicate set it returns all rows.
C17_QueryExact ==
    ret.op = "load_history" =>
        /\ {ret.val[i].id : i \in 1..Len(ret.val)}
              = {id \in DOMAIN envios : Satisfies(envios[id], ret.filters)}
        /\ \A i, j \in 1..Len(ret.val) :
              i < j => /\ ret.val[i].id # ret.val[j].id
                       /\ ret.val[i].send_date >= ret.val[j].send_date
        /\ \A i \in 1..Len(ret.val) :
              ret.val[i] = HistoryEntry(envios, ret.val[i].id)
        /\ ret.filters = NoFilter => Len(ret.val) = Cardinality(DOMAIN envios)

\* The HistoryStats of a selection with no row.
ZeroStats ==
    [total_invoices |-> 0, successful_invoices |-> 0, failed_invoices |-> 0,
     pending_invoices |-> 0, total_amount |-> 0]

\* C18, as claimed: success_rate is successful_invoices divided by
\* total_invoices, and 0 when total_invoices is 0; the statistics of an
\* empty history are all 0, with success_rate 0 and no division by zero.
C18_SuccessRate ==
    ret.op = "get_history_stats" =>
        /\ ret.success_rate.den > 0
        /\ ret.val.total_invoices = 0 => ret.success_rate.num = 0
        /\ ret.val.total_invoices > 0 =>
              ret.success_rate.num * ret.val.total_invoices
                  = ret.val.successful_invoices * ret.success_rate.den
        /\ envios = << >> => ret.val = ZeroStats /\ ret.success_rate.num = 0

\* C18, amended: success_rate is the percentage, 100 times
\* successful_invoices divided by total_invoices, and 0 when
\* total_invoices is 0; the statistics of an empty history are all 0, with
\* success_rate 0 and no division by zero.
C18_SuccessRatePercent ==
    ret.op = "get_history_stats" =>
        /\ ret.success_rate.den > 0
        /\ ret.val.total_invoices = 0 => ret.success_rate.num = 0
        /\ ret.val.total_invoices > 0 =>
              ret.success_rate.num * ret.val.total_invoices
                  = 100 * ret.val.successful_invoices * ret.success_rate.den
        /\ envios = << >> => ret.val = ZeroStats /\ ret.success_rate.num = 0

\* Statistics over two invoices, one of them OK: success_rate is 50.
C18_Witness ==
    /\ ret.op = "get_history_stats"
    /\ ret.val.total_invoices = 2
    /\ ret.val.successful_invoices = 1
    /\ ret.success_rate.num = 50 * ret.success_rate.den

\* A step of clear_history by some caller: its DELETE with the commit, its
\* VACUUM with the return, or the exception that leaves it.
ClearStep ==
    \/ \E t \in Threads :
          /\ threads'[t].pc # threads[t].pc
          /\ "clear_history" \in {threads[t].pc, threads'[t].pc}
    \/ ret'.op = "clear_history" /\ ret' # ret

\* C15: a stored history row is changed by no step except in its
\* pdf_local_path, by the backfill, and is removed by no step except the
\* DELETE of the clear, which removes every row; the steps of the queue
\* (add_to_queue, the drain with its mark_as_sent and mark_as_failed,
\* clear_sent_items) and the reads (load_history, get_history_stats) leave
\* the history as it is, and the history operations, every step of the
\* clear included, leave the queue as it is.
C15_HistoryFrame ==
    /\ [][\A i \in DOMAIN envios :
            IF i \in DOMAIN envios'
            THEN \/ envios'[i] = envios[i]
                 \/ /\ \/ ret'.op = "update_pdf_paths_in_history"
                       \/ backfill'.pc = "loop"
                    /\ envios'[i] = [envios[i] EXCEPT
                                       !.pdf_local_path = envios'[i].pdf_local_path]
            ELSE /\ \E t \in Threads :
                       /\ threads[t].pc = "idle"
                       /\ threads'[t].pc = "clear_history"
                 /\ envios' = << >>]_vars
    /\ [][(tableVars' # tableVars
              \/ ret'.op \in {"add_to_queue", "clear_sent_items",
                               "process_offline_queue", "load_history",
                               "get_history_stats"}) =>
            envios' = envios /\ hseq' = hseq]_vars
    /\ [][(envios' # envios \/ ClearStep) => tableVars' = tableVars]_vars

\* The history, which held two rows, has been cleared and clear_history
\* has returned, while the queue holds an item the drain sent and an item
\* it failed to send.
C15_Witness ==
    /\ ret.op = "clear_history"
    /\ ~ret.exc
    /\ envios = << >>
    /\ hseq = 2
    /\ \E a, b \in DOMAIN queue :
          /\ queue[a].estado = ENVIADO
          /\ calls[b].failed = 1

\* The required columns a sheet lacks.
Missing(df, required) == {col \in Range(required) : col \notin df.columns}

\* The errors of a result that name the column and carry the message.
ErrorsAbout(errors, col, message) ==
    {k \in 1..Len(errors) :
        /\ errors[k].field_name = col
        /\ errors[k].error_message = <<message, col>>}

\* C19: when a required column of the invoices sheet or of the line items
\* sheet is missing, validate_invoice_data returns is_valid = False and its
\* error list holds exactly one error per missing column of each sheet,
\* every one with row index -1, so no row is checked whatever the rows hold.
C19_MissingColumns ==
    LET missing_f == Missing(df_factura, required_factura_cols)
        missing_c == Missing(df_conceptos, required_conceptos_cols)
    IN  (ret.op = "validate_invoice_data"
         /\ (missing_f # {} \/ missing_c # {}))
        => /\ ret.val.is_valid = FALSE
           /\ Len(ret.val.errors) = Cardinality(missing_f) + Cardinality(missing_c)
           /\ \A k \in 1..Len(ret.val.errors) : ret.val.errors[k].row_index = -1
           /\ \A col \in missing_f :
                  Cardinality(ErrorsAbout(ret.val.errors, col,
                                  "Falta la columna requerida: ")) = 1
           /\ \A col \in missing_c :
                  Cardinality(ErrorsAbout(ret.val.errors, col,
                                  "Falta la columna requerida en conceptos: ")) = 1

\* A sheet without cliente_nombre whose only row has no empresa_emisora and
\* no line items was validated: the one error is the missing column.
C19_Witness ==
    /\ ret.op = "validate_invoice_data"
    /\ Missing(df_factura, required_factura_cols) = {"cliente_nombre"}
    /\ Missing(df_conceptos, required_conceptos_cols) = {}
    /\ Len(df_factura.rows) = 1
    /\ df_factura.rows[1].empresa_emisora = << >>
    /\ df_conceptos.rows = << >>
    /\ Len(ret.val.errors) = 1
    /\ ret.val.errors[1].row_index = -1
    /\ ret.val.is_valid = FALSE

\* The errors of a result that report row i (1-based) of the invoices sheet
\* as having no line items, tagged with its normalized invoice number.
NoConceptosErrors(errors, i) ==
    {k \in 1..Len(errors) :
        /\ errors[k].field_name = "conceptos"
        /\ errors[k].row_index = i - 1
        /\ "invoice_id" \in DOMAIN errors[k]
        /\ errors[k].invoice_id
               = normalize_invoice_id(df_factura.rows[i].NumFactura)}

\* C20: for a batch with every required column, a row of the invoices sheet
\* gets a missing-line-items error, tagged with its normalized invoice
\* number and its row index, exactly when no line item has the same
\* normalized invoice number; both sides are compared in normalized form.
C20_ConceptosMatched ==
    (ret.op = "validate_invoice_data"
     /\ Missing(df_factura, required_factura_cols) = {}
     /\ Missing(df_conceptos, required_conceptos_cols) = {})
    => \A i \in 1..Len(df_factura.rows) :
           (NoConceptosErrors(ret.val.errors, i) # {})
           <=> (\A k \in 1..Len(df_conceptos.rows) :
                    normalize_invoice_id(df_conceptos.rows[k].NumFactura)
                        # normalize_invoice_id(df_factura.rows[i].NumFactura))

\* Invoices "7" and "8" were validated against the single line item "7.0":
\* the only error is the missing line items of invoice "8" in row 1.
C20_Witness ==
    /\ ret.op = "validate_invoice_data"
    /\ Missing(df_factura, required_factura_cols) = {}
    /\ Missing(df_conceptos, required_conceptos_cols) = {}
    /\ Len(df_factura.rows) = 2
    /\ df_factura.rows[1].NumFactura = <<"7">>
    /\ df_factura.rows[2].NumFactura = <<"8">>
    /\ Len(df_conceptos.rows) = 1
    /\ df_conceptos.rows[1].NumFactura = <<"7", ".", "0">>
    /\ Len(ret.val.errors) = 1
    /\ ret.val.errors[1] = [row_index |-> 1, field_name |-> "conceptos",
                            error_message |-> "La factura no tiene conceptos asociados",
                            invoice_id |-> <<"8">>]
    /\ ret.val.is_valid = FALSE

\* A cell without content: the empty string or a blank cell.
IsEmpty(x) == x = << >> \/ x = NaN

\* The fields of row i (1-based) of the invoices sheet that fail a check, in
\* the order of the checks.
FailingChecks(i) ==
    LET row == df_factura.rows[i]
        checks == <<"NumFactura", "empresa_emisora", "cliente_nombre",
                    "conceptos">>
        fails(c) ==
            CASE c = "NumFactura" ->
                     normalize_invoice_id(row.NumFactura) = << >>
              [] c = "empresa_emisora" -> IsEmpty(row.empresa_emisora)
              [] c = "cliente_nombre" -> IsEmpty(row.cliente_nombre)
              [] OTHER ->
                     \A k \in 1..Len(df_conceptos.rows) :
                         normalize_invoice_id(df_conceptos.rows[k].NumFactura)
                             # normalize_invoice_id(row.NumFactura)
    IN  SelectSeq(checks, fails)

\* The (row index, field) pairs of rows i.. of the invoices sheet, in order.
RECURSIVE Defects(_)
Defects(i) ==
    IF i > Len(df_factura.rows) THEN << >>
    ELSE [k \in 1..Len(FailingChecks(i)) |-> <<i - 1, FailingChecks(i)[k]>>]
         \o Defects(i + 1)

\* C21: for a batch with every required column, validate_invoice_data
\* checks every row of the invoices sheet and reports one error, carrying
\* the row's index, for each failing check (empty normalized invoice number,
\* empty issuer, empty customer, no matching line item), in row order, and
\* is_valid is True exactly when the error list is empty.
C21_AllDefectsReported ==
    (ret.op = "validate_invoice_data"
     /\ Missing(df_factura, required_factura_cols) = {}
     /\ Missing(df_conceptos, required_conceptos_cols) = {})
    => /\ [k \in 1..Len(ret.val.errors) |->
              <<ret.val.errors[k].row_index, ret.val.errors[k].field_name>>]
          = Defects(1)
       /\ ret.val.is_valid <=> (ret.val.errors = << >>)

\* The text is an integer optionally followed by a zero fractional part.
IsWhole(s) == fullmatch_numeric(s) > 0

\* The integer string of such a text: its digits before the point, without
\* leading zeros.
RECURSIVE WholeText(_)
WholeText(s) ==
    IF Len(s) > 1 /\ Head(s) = "0" /\ s[2] # "." THEN WholeText(Tail(s))
    ELSE SubSeq(s, 1, fullmatch_numeric(s))

\* C22: normalize_invoice_id returns a string for every input, normalizing
\* its result again changes nothing, an integer optionally followed by a
\* zero fractional part maps to the integer string, and any other text maps
\* to its trimmed form.
C22_NormalizeIdempotent ==
    ret.op = "normalize_invoice_id"
    => /\ normalize_invoice_id(ret.val) = ret.val
       /\ IsWhole(strip(str(arg))) => ret.val = WholeText(strip(str(arg)))
       /\ ~IsWhole(strip(str(arg))) => ret.val = strip(str(arg))

\* The Decimal was returned and is the number coef / 10^places.
IsAmount(val, coef, places) ==
    /\ "exc" \notin DOMAIN val
    /\ is_finite(val)
    /\ \E k \in 0..places :
           /\ val.exp = k - places
           /\ val.coef * 10^k = coef

\* The amount texts of 1234.56 with dot thousands and comma decimal, with
\* comma decimal, and with dot decimal.
SpanishForms ==
    {<<"1", ".", "2", "3", "4", ",", "5", "6">>,
     <<"1", "2", "3", "4", ",", "5", "6">>,
     <<"1", "2", "3", "4", ".", "5", "6">>}

\* C23: parse_amount maps "1.234,56", "1234,56" and "1234.56", with or
\* without currency symbol and surrounding whitespace, to the decimal
\* 1234.56, and returns zero instead of raising for an input it cannot
\* parse: a text holding no number, None, a value of another type.
C23_ParseAmount ==
    ret.op = "parse_amount"
    => /\ "exc" \notin DOMAIN ret.val
       /\ (arg.type = "str"
           /\ \E p \in Prefixes, b \in SpanishForms, x \in Suffixes :
                  arg.value = p \o b \o x)
          => IsAmount(ret.val, 123456, 2)
       /\ (arg.type = "str" /\ arg.value \in NoAmounts)
          => IsAmount(ret.val, 0, 1)
       /\ arg.type \notin {"str", "int", "float", "Decimal"}
          => IsAmount(ret.val, 0, 1)

\* C24: parse_amount reads "1,234.56", with "," the thousands separator and
\* "." the decimal point, as 1234.56, the value it returns for "1234.56".
C24_EnglishAmount ==
    (ret.op = "parse_amount"
     /\ arg = PyStr(<<"1", ",", "2", "3", "4", ".", "5", "6">>))
    => IsAmount(ret.val, 123456, 2)

\* The cell holds a number.
IsNumber(cell) == is_finite(decimal_of(str_number(cell)))

\* The number a cell holds, in units of 10^-places.
Units(cell, places) ==
    decimal_of(str_number(cell)).coef
        * 10^(decimal_of(str_number(cell)).exp + places)

\* The line item gives no retention rate: its cell is blank.
NoRate(row, col) ==
    col = "retencion_porcentaje" /\ col \in DOMAIN row /\ row[col] = BlankCell

\* The percentage of a line item, 0 where the sheet has no such column or
\* the line item gives no retention rate (retention_rate: default 0), and
\* 100 for the base.
Pct(row, col) ==
    IF col = "base" THEN 100
    ELSE IF col \in DOMAIN row /\ ~NoRate(row, col) THEN Units(row[col], 0)
    ELSE 0

\* The line items asked for hold numbers in the cells the sum of col is
\* made of.
Stated(col) ==
    \A i \in 1..Len(df_conceptos.rows) :
        normalize_invoice_id(df_conceptos.rows[i].NumFactura) = arg
        => /\ IsNumber(df_conceptos.rows[i].cantidad)
           /\ IsNumber(df_conceptos.rows[i].precio_unitario)
           /\ \/ col \notin DOMAIN df_conceptos.rows[i]
              \/ NoRate(df_conceptos.rows[i], col)
              \/ IsNumber(df_conceptos.rows[i][col])

\* The sum of quantity * price * pct / 100 over the line items i.. of the
\* sheet whose normalized invoice number is the one asked for, in units of
\* 10^-4.
RECURSIVE SumOver(_, _)
SumOver(i, col) ==
    IF i > Len(df_conceptos.rows) THEN 0
    ELSE (IF normalize_invoice_id(df_conceptos.rows[i].NumFactura) = arg
          THEN Units(df_conceptos.rows[i].cantidad, 0)
               * Units(df_conceptos.rows[i].precio_unitario, 2)
               * Pct(df_conceptos.rows[i], col)
          ELSE 0)
         + SumOver(i + 1, col)

\* The Decimal is the number units / 10^places.
Equals(d, units, places) ==
    /\ is_finite(d)
    /\ IF d.exp + places >= 0 THEN d.coef * 10^(d.exp + places) = units
       ELSE d.coef = units * 10^(-(d.exp + places))

\* The sheet is sample_conceptos_dataframe.
IsSample ==
    /\ Len(df_conceptos.rows) = 3
    /\ Cardinality(df_conceptos.columns) = 6
    /\ \A i \in 1..3 :
           /\ df_conceptos.rows[i].NumFactura
                  = <<"2", "5", "0", "0", IF i = 3 THEN "2" ELSE "1">>
           /\ df_conceptos.rows[i].cantidad = PyInt(IF i = 2 THEN 2 ELSE 1)
           /\ df_conceptos.rows[i].precio_unitario
                  = PyFloat(<<CASE i = 1 -> "1" [] i = 2 -> "2" [] OTHER -> "5",
                              "0", "0", ".", "0">>)
           /\ df_conceptos.rows[i].iva_porcentaje.type = "int"
           /\ df_conceptos.rows[i].iva_porcentaje.value = 21
           /\ df_conceptos.rows[i].retencion_porcentaje.type = "int"
           /\ df_conceptos.rows[i].retencion_porcentaje.value
                  = IF i = 3 THEN 15 ELSE 0

\* C25: calculate_invoice_totals returns (base, tax_total, retention_total):
\* base the exact sum of quantity * price over exactly the line items whose
\* normalized invoice number equals the id, tax_total the sum of
\* base_i * tax_pct_i / 100 and retention_total that of
\* base_i * retention_pct_i / 100, a line item without a retention rate
\* counting with rate 0; an id without line items gives (0, 0, 0), and the
\* sample sheet gives (500, 105, 0) for 25001 and (500, 105, 75) for 25002.
\* Each sum is stated where the cells it is made of hold numbers.
C25_InvoiceTotals ==
    ret.op = "calculate_invoice_totals"
    => /\ Stated("base") => Equals(ret.val[1], SumOver(1, "base"), 4)
       /\ Stated("iva_porcentaje")
          => Equals(ret.val[2], SumOver(1, "iva_porcentaje"), 4)
       /\ Stated("retencion_porcentaje")
          => Equals(ret.val[3], SumOver(1, "retencion_porcentaje"), 4)
       /\ (\A i \in 1..Len(df_conceptos.rows) :
               normalize_invoice_id(df_conceptos.rows[i].NumFactura) # arg)
          => \A k \in 1..3 : Equals(ret.val[k], 0, 0)
       /\ (IsSample /\ arg = <<"2", "5", "0", "0", "1">>)
          => /\ Equals(ret.val[1], 500, 0)
             /\ Equals(ret.val[2], 105, 0)
             /\ Equals(ret.val[3], 0, 0)
       /\ (IsSample /\ arg = <<"2", "5", "0", "0", "2">>)
          => /\ Equals(ret.val[1], 500, 0)
             /\ Equals(ret.val[2], 105, 0)
             /\ Equals(ret.val[3], 75, 0)

\* C26: get_dashboard_stats serves the stored value only when the call is
\* not forced, a value is cached and its age is below the TTL; otherwise
\* (after invalidate, after the TTL, or forced) it recomputes from the store
\* and replaces the cached value and its timestamp, and when the
\* recomputation fails it returns all-zero statistics and leaves the cache
\* and its timestamp unchanged. Every call returns one of the three ways.
C26_StatsCache ==
    [][LET returns == /\ ret'.op = "get_dashboard_stats"
                      /\ dashboard.pc # "idle"
                      /\ dashboard'.pc = "idle"
       IN  /\ returns => ret'.branch \in {"cache", "stats", "except"}
           /\ (returns /\ ret'.branch = "cache")
              => /\ ~ret'.force
                 /\ cache # NoStats
                 /\ last_updated # NULL
                 /\ ret'.now - last_updated < DefaultTtl
                 /\ ret'.now <= clock
                 /\ ret'.val = cache
                 /\ UNCHANGED <<cache, last_updated>>
           /\ (dashboard.pc # "total" /\ dashboard'.pc = "total")
              => /\ \/ dashboard'.force
                    \/ cache = NoStats
                    \/ last_updated = NULL
                    \/ clock - last_updated >= DefaultTtl
                 /\ UNCHANGED <<cache, last_updated>>
           /\ (dashboard.pc = "total" /\ dashboard'.pc = "month")
              => /\ dashboard'.total_success
                        = Cardinality({i \in DOMAIN envios :
                                          envios[i].estado = EXITO})
                 /\ UNCHANGED <<cache, last_updated>>
           /\ (dashboard.pc = "month" /\ dashboard'.pc = "store")
              => /\ dashboard'.stats
                        = [total_success |-> dashboard.total_success,
                           month_count |-> Cardinality(DOMAIN envios),
                           month_total |->
                               100 * Cardinality({i \in DOMAIN envios :
                                                     envios[i].estado = OK})
                               + 50 * Cardinality({i \in DOMAIN envios :
                                                      envios[i].estado = EXITO})]
                 /\ UNCHANGED <<cache, last_updated>>
           /\ (dashboard.pc = "store" /\ dashboard'.pc # "store")
              => /\ dashboard'.pc = "stamp"
                 /\ dashboard'.stats = dashboard.stats
                 /\ cache' = dashboard.stats
           /\ (dashboard.pc = "stamp" /\ dashboard'.pc # "stamp")
              => /\ returns
                 /\ ret'.branch = "stats"
                 /\ ret'.val = dashboard.stats
                 /\ cache' = ret'.val
                 /\ cache = ret'.val
                 /\ last_updated' = ret'.now
                 /\ ret'.now \in dashboard.since..clock
           /\ (returns /\ ret'.branch = "except")
              => /\ dashboard.pc \in {"total", "month"}
                 /\ ret'.val = [total_success |-> 0, month_count |-> 0,
                                month_total |-> 0]
                 /\ UNCHANGED <<cache, last_updated>>
           /\ (cache' # cache \/ last_updated' # last_updated)
              => \/ dashboard.pc \in {"store", "stamp"}
                 \/ /\ dashboard.pc = "idle"
                    /\ cache' = NoStats \/ last_updated' = NULL]_vars

\* A call that was not forced returned the value cached one second before,
\* although the store has changed since.
C26_Witness ==
    /\ ret.op = "get_dashboard_stats"
    /\ ret.branch = "cache"
    /\ ret.force = FALSE
    /\ ret.val = cache
    /\ ret.now = last_updated + 1
    /\ ret.val.month_count < Cardinality(DOMAIN envios)

\* The OfflineQueueItem of a row, carrying the estado the service wrote.
ItemOf(id) == [OfflineQueueItem(queue, id) EXCEPT !.status = queue[id].estado]

\* The number of predicates of OfflineQueueItem that recognise the item.
Recognised(item) ==
    Cardinality({p \in {"is_pending", "is_processed", "is_error"} :
                    CASE p = "is_pending" -> is_pending(item)
                      [] p = "is_processed" -> is_processed(item)
                      [] OTHER -> is_error(item)})

\* C27: every status the queue service writes to an item is recognised by
\* exactly one of is_pending (PENDING), is_processed (SENT) and is_error
\* (FAILED), and should_retry is true exactly for the items the service
\* would still hand out for another attempt.
C27_StatusVocabulary ==
    \A id \in DOMAIN queue :
        /\ Recognised(ItemOf(id)) = 1
        /\ is_pending(ItemOf(id)) <=> queue[id].estado = PENDIENTE
        /\ is_processed(ItemOf(id)) <=> queue[id].estado = ENVIADO
        /\ is_error(ItemOf(id)) <=> queue[id].estado = FALLIDO
        /\ should_retry(ItemOf(id))
           <=> \E items \in get_pending_items(queue, DefaultLimit) :
                   \E i \in 1..Len(items) : items[i].id = id

\* C28: with one max_retries m used for every mark_as_failed, in every
\* reachable state an item with estado PENDIENTE has intentos < m, an item
\* with estado FALLIDO has intentos >= m, and the intentos of an item never
\* decrease.
C28_CounterBounds ==
    [][\A id \in DOMAIN queue' :
           /\ queue'[id].estado = PENDIENTE => queue'[id].intentos < max_retries
           /\ queue'[id].estado = FALLIDO => queue'[id].intentos >= max_retries
           /\ id \in DOMAIN queue
              => queue'[id].intentos >= queue[id].intentos]_vars

\* C29: the number clear_sent_items returns is the number of rows that call
\* deleted, also when another caller's mark_as_sent, or mark_as_failed on a
\* sent item, runs between its count and its delete.
C29_ClearCountExact ==
    [][(threads[1].pc = "counted" /\ threads'[1].pc = "idle")
       => ret'.val = Cardinality(DOMAIN queue \ DOMAIN queue')]_vars

\* C30: a drain works on the items read at its start: it attempts each of
\* them at most once, going through them in order, so an item that fails is
\* not attempted again in the same drain and its intentos rise by at most
\* one, and an item enqueued after the read is left as it is until a later
\* drain.
C30_DrainSnapshot ==
    [][/\ \A i, j \in 1..Len(pending_items') :
              i # j => pending_items'[i].id # pending_items'[j].id
       /\ (pending_items # << >> /\ pending_items' # << >>)
          => /\ pending_items' = pending_items
             /\ idx' \in {idx, idx + 1}
       /\ \A id \in DOMAIN queue \cap DOMAIN queue' :
              queue'[id] # queue[id]
              => /\ pending_items # << >>
                 /\ pending_items[idx].id = id
                 /\ pending_items' = << >> \/ idx' = idx + 1
                 /\ queue'[id].intentos <= pending_items[idx].attempts + 1
       /\ \A i \in 1..Len(pending_items') :
              (i >= idx' /\ pending_items'[i].id \in DOMAIN queue')
              => /\ queue'[pending_items'[i].id].estado = PENDIENTE
                 /\ queue'[pending_items'[i].id].intentos
                        = pending_items'[i].attempts]_vars

\* A drain of one item has returned: the item failed once and is pending
\* again, and the item enqueued while the drain ran was not touched.
C30_Witness ==
    /\ ret.op = "process_offline_queue"
    /\ ret.val = [processed |-> 1, success |-> 0, failed |-> 1]
    /\ DOMAIN queue = {1, 2}
    /\ queue[1].estado = PENDIENTE
    /\ queue[1].intentos = 1
    /\ queue[2].estado = PENDIENTE
    /\ queue[2].intentos = 0

====
